---- MODULE Spec2Model ----
(***************************************************************************)
(* Model of the HTTP/SSE transport bridge of the Redis MCP server          *)
(* (src/src/http_server.py) together with the authentication middleware    *)
(* that create_app() puts in front of it (src/src/auth).                   *)
(*                                                                         *)
(* One action per handler step.  A handler runs atomically between two     *)
(* points where the coroutine really suspends (asyncio is cooperative):    *)
(*   - POST /message suspends in get_tools_list(), in call_tool() and in   *)
(*     Queue.put() when the queue is full;                                 *)
(*   - the SSE generator suspends at every yield and in Queue.get().       *)
(***************************************************************************)
EXTENDS Integers, Sequences, FiniteSets, TLC

\* ---------------------------------------------------------------- bounds
MaxRequests   == 3      \* GET /sse connections plus POST /message requests
MaxKeepalives == 1      \* keepalive comments emitted per connection

\* ------------------------------------------------------ program constants
QueueMaxsize  == 0      \* asyncio.Queue() : maxsize defaults to 0 (unbounded)

None  == "None"         \* Python None / JSON null
Ghost == "ghost"        \* a sessionId no uuid4() call ever returned

\* uuid.uuid4(): the n-th call returns a value no earlier call returned
UuidPool == <<"s1", "s2", "s3", "s4", "s5", "s6">>
\* (variant: an id source that hands out the same value again)
uuid4_Repeat(n) == UuidPool[1]
uuid4(n) == UuidPool[n]

VARIABLES
    AUTH_CFG,         \* the configuration dict create_app() reads
    auth_middleware,  \* the checker create_app() installed (None: no checker)
    backend,          \* the Redis client, embedding model and caches the tools
                      \* memoise, and the step each running tool call is in
    sse_sessions,     \* keys of the dict _sse_sessions
    queue,            \* the asyncio.Queue object created for each session id
    conn,             \* per SSE connection: generator position, events sent
    uuids,            \* number of uuid4() calls so far
    inflight,         \* suspended POST /message handlers
    nposts,           \* POST /message requests received so far
    last,             \* the HTTP exchange the latest step completed, if any
    acked             \* the puts done, in order: request number and session id

vars == <<AUTH_CFG, auth_middleware, backend, sse_sessions, queue, conn, uuids,
          inflight, nposts, last, acked>>

\* A JSON object (a dict) is a function from its member names to their values
EmptyObject == [x \in {} |-> None]
Member(name, value) == (name :> value)

\* dict.get(key, default)
Get(d, key, default) == IF key \in DOMAIN d THEN d[key] ELSE default

Created == {uuid4(n) : n \in 1..uuids}

\* ------------------------------------------------------------------ auth
\* str.upper() / str.lower() on the strings the model uses
Upper(s) == CASE s = "no-auth" -> "NO-AUTH"
              [] s = "api-key" -> "API-KEY"
              [] s = "Api-Key" -> "API-KEY"
              [] s = "oauth"   -> "OAUTH"
              [] s = "ldap"    -> "LDAP"
              [] OTHER         -> s
Lower(s) == CASE s = "Bearer" -> "bearer"
              [] s = "BEARER" -> "bearer"
              [] OTHER        -> s

NoMiddleware == [cls |-> "none"]

\* create_app() has not run yet / an exception left get_auth_middleware
Unstarted == [cls |-> "unstarted"]
Raised(error) == [cls |-> "raised", error |-> error]

\* What EntraIDTokenVerifier(...) does when get_auth_middleware constructs it:
\* it returns the verifier, or PyJWKClient(...) raises
Constructions == {"ok", "raise"}

\* APIKeyMiddleware.__init__
APIKeyMiddleware(api_keys) ==
    [cls |-> "APIKeyMiddleware", api_keys |-> api_keys,
     auth_enabled |-> (api_keys # {})]

\* BearerAuthMiddleware.__init__ : oauth_enabled comes from oauth_config only
BearerAuthMiddleware(oauth_config, token_verifier) ==
    [cls |-> "BearerAuthMiddleware", oauth_config |-> oauth_config,
     token_verifier |-> token_verifier,
     oauth_enabled |-> Get(oauth_config, "enabled", FALSE)]

\* EntraIDTokenVerifier.__init__ ("required_scopes or []" leaves a list as
\* it is); NoVerifier is the default token_verifier=None of the middleware
NoVerifier == [cls |-> "None"]
EntraIDTokenVerifier(tenant_id, client_id, required_scopes) ==
    [cls |-> "EntraIDTokenVerifier", tenant_id |-> tenant_id,
     client_id |-> client_id, required_scopes |-> required_scopes]

\* get_auth_middleware(auth_config), given what the verifier's construction
\* does; the bearer middleware is constructed with token_verifier only, so
\* its oauth_config is the default {}.  A method that is None has no upper():
\* line 31 raises AttributeError, which nothing catches
get_auth_middleware(auth_config, construction) ==
    IF Get(auth_config, "method", "NO-AUTH") = None
    THEN Raised("AttributeError")
    ELSE
    LET method == Upper(Get(auth_config, "method", "NO-AUTH")) IN
    CASE method = "NO-AUTH" -> NoMiddleware
      [] method = "API-KEY" ->
            LET api_keys == Get(auth_config, "api_keys", {}) IN
            IF api_keys = {} THEN NoMiddleware ELSE APIKeyMiddleware(api_keys)
      [] method = "OAUTH" ->
            LET tenant_id == Get(auth_config, "oauth_tenant_id", None)
                client_id == Get(auth_config, "oauth_client_id", None)
                required_scopes == Get(auth_config, "oauth_required_scopes", <<>>)
            IN  IF tenant_id \in {None, ""} \/ client_id \in {None, ""}
                THEN NoMiddleware
                ELSE IF construction = "raise"     \* except Exception
                THEN NoMiddleware
                ELSE BearerAuthMiddleware(<<>>,
                        EntraIDTokenVerifier(tenant_id, client_id, required_scopes))
      [] OTHER -> NoMiddleware

\* The 401 reply both middlewares build
Unauthorized(message) ==
    [status |-> 401,
     body |-> [kind |-> "jsonrpc",
               json |-> [jsonrpc |-> "2.0", id |-> None,
                         error |-> [code |-> -32001, message |-> message]]]]

Pass == [status |-> 0]      \* the middleware called call_next(request)

\* APIKeyMiddleware._is_valid_key
\* (variant: a comparison that accepts every key)
is_valid_key_Any(mw, provided_key) == TRUE
is_valid_key(mw, provided_key) == \E valid_key \in mw.api_keys : provided_key = valid_key

\* APIKeyMiddleware.dispatch
\* (variant: the key is checked on /health too)
APIKeyDispatch_NoExempt(mw, path, headers) ==
    IF ~mw.auth_enabled THEN Pass
    ELSE LET api_key == Get(headers, "X-API-Key", None) IN
         IF api_key \in {None, ""} THEN Unauthorized("Missing X-API-Key header")
         ELSE IF ~is_valid_key(mw, api_key) THEN Unauthorized("Invalid API key")
         ELSE Pass
APIKeyDispatch(mw, path, headers) ==
    IF path = "/health" THEN Pass
    ELSE IF ~mw.auth_enabled THEN Pass
    ELSE LET api_key == Get(headers, "X-API-Key", None) IN
         IF api_key \in {None, ""} THEN Unauthorized("Missing X-API-Key header")
         ELSE IF ~is_valid_key(mw, api_key) THEN Unauthorized("Invalid API key")
         ELSE Pass

\* ---------------------------------------------- EntraIDTokenVerifier
\* The strings the verifier works on (scopes, audiences, issuers) are
\* sequences of lexemes: a word without "." or " ", the dot, the space.
\* str.endswith(suffix)
EndsWith(str, suffix) ==
    /\ Len(str) >= Len(suffix)
    /\ SubSeq(str, Len(str) - Len(suffix) + 1, Len(str)) = suffix

\* str.split(sep) with a one-lexeme separator: the pieces between the
\* separators, empty pieces included
RECURSIVE Split(_, _)
Split(str, sep) ==
    IF \A i \in 1..Len(str) : str[i] # sep
    THEN <<str>>
    ELSE LET i == CHOOSE j \in 1..Len(str) :
                     str[j] = sep /\ \A k \in 1..(j - 1) : str[k] # sep
         IN  <<SubSeq(str, 1, i - 1)>> \o Split(SubSeq(str, i + 1, Len(str)), sep)

\* set(list)
SetOf(list) == {list[i] : i \in 1..Len(list)}

\* The scope strings of the model
Dot == "."
Space == " "
MCPRead == <<"MCP", Dot, "Read">>
MCPWrite == <<"MCP", Dot, "Write">>
UserMCPRead == <<"User", Dot, "MCP", Dot, "Read">>
ApiMCPWrite == <<"Api", Dot, "MCP", Dot, "Write">>
OtherScope == <<"Other", Dot, "Scope">>

\* A bearer token as the verifier sees it: whether its signing key is found
\* in the JWKS, whether it parses as a JWT, whether its RS256 signature
\* verifies, and its claims (a JSON object).  time.time() is Now.
Now == 2
JWT(jwks, form, signature, claims) ==
    [jwks |-> jwks, form |-> form, signature |-> signature, claims |-> claims]
StringClaim(str) == [type |-> "string", value |-> str]
ArrayClaim(items) == [type |-> "array", items |-> items]

\* self.issuer, and the audiences verify_token accepts (lines 66-69)
\* (variant: only the api:// form is accepted)
Issuer(tenant_id) == <<"https://login.microsoftonline.com/", tenant_id, "/v2.0">>
expected_audiences_ApiOnly(verifier) == {<<"api://", verifier.client_id>>}
expected_audiences(verifier) ==
    {<<"api://", verifier.client_id>>, <<verifier.client_id>>}

\* jwt's _validate_aud: a string audience claim counts as a list of one
audience_claims(aud) ==
    IF aud.type = "string" THEN {aud.value} ELSE SetOf(aud.items)

\* The exception classes and their bases: what "except E" catches
Bases(error) ==
    CASE error \in {"ExpiredSignatureError", "InvalidAudienceError",
                    "InvalidIssuerError", "DecodeError",
                    "MissingRequiredClaimError"}
              -> {error, "InvalidTokenError", "PyJWTError", "Exception"}
      [] error = "InvalidSignatureError"
              -> {error, "DecodeError", "InvalidTokenError", "PyJWTError",
                  "Exception"}
      [] error = "PyJWKClientError" -> {error, "PyJWTError", "Exception"}
      [] OTHER -> {error}
ExceptClauses == {"ExpiredSignatureError", "InvalidAudienceError",
                  "InvalidIssuerError", "InvalidTokenError", "Exception"}

\* Lines 57-85: get_signing_key_from_jwt, then jwt.decode: the signature,
\* then the claims exp, iss, aud in jwt's order.  The exception raised, or
\* None when the token is decoded
Decode(verifier, token) ==
    LET claims == token.claims IN
    IF token.form # "jwt" THEN "DecodeError"
    ELSE IF token.jwks # "found" THEN "PyJWKClientError"
    ELSE IF token.signature # "valid" THEN "InvalidSignatureError"
    ELSE IF "exp" \in DOMAIN claims /\ claims["exp"] <= Now
         THEN "ExpiredSignatureError"
    ELSE IF "iss" \notin DOMAIN claims THEN "MissingRequiredClaimError"
    ELSE IF claims["iss"] # Issuer(verifier.tenant_id) THEN "InvalidIssuerError"
    ELSE IF "aud" \notin DOMAIN claims THEN "MissingRequiredClaimError"
    ELSE IF audience_claims(claims["aud"]) \cap expected_audiences(verifier) = {}
         THEN "InvalidAudienceError"
    ELSE None

\* Lines 88-99: the granted scopes
\* (variant: the application roles are consulted first)
GrantedScopes_RolesFirst(decoded) ==
    IF "roles" \in DOMAIN decoded THEN decoded["roles"]
    ELSE IF "scp" \in DOMAIN decoded THEN Split(decoded["scp"], Space)
    ELSE <<>>
GrantedScopes(decoded) ==
    IF "scp" \in DOMAIN decoded THEN Split(decoded["scp"], Space)
    ELSE IF "roles" \in DOMAIN decoded THEN decoded["roles"]
    ELSE <<>>

\* Lines 116-121: one granted scope against one required scope
\* (variant: the exact comparison only)
scope_found_Exact(token_scope, required_scope) == token_scope = required_scope
scope_found(token_scope, required_scope) ==
    \/ token_scope = required_scope
    \/ token_scope = <<"User", Dot>> \o required_scope
    \/ EndsWith(token_scope, <<Dot>> \o required_scope)

\* Lines 101-135: the required scopes, exact subset first, then flexible
ScopesVerified(verifier, scopes) ==
    IF verifier.required_scopes = <<>> THEN TRUE
    ELSE LET token_scopes_set == SetOf(scopes)
             required_scopes_set == SetOf(verifier.required_scopes)
         IN  IF required_scopes_set \subseteq token_scopes_set THEN TRUE
             ELSE \A required_scope \in required_scopes_set :
                     \E token_scope \in token_scopes_set :
                         scope_found(token_scope, required_scope)

\* What a call returns to its caller: a value, or an exception
Returns(value) == [kind |-> "return", value |-> value]
Raises(error) == [kind |-> "raise", error |-> error]
NoGrant == [cls |-> "None"]
AccessToken(token, client_id, scopes, expires_at) ==
    [cls |-> "AccessToken", token |-> token, client_id |-> client_id,
     scopes |-> scopes, expires_at |-> expires_at]

\* EntraIDTokenVerifier.verify_token: the try block and its except clauses
verify_token(verifier, token) ==
    LET error == Decode(verifier, token) IN
    IF error # None
    THEN IF Bases(error) \cap ExceptClauses # {}
         THEN Returns(NoGrant) ELSE Raises(error)
    ELSE LET decoded == token.claims
             scopes == GrantedScopes(decoded)
         IN  IF ~ScopesVerified(verifier, scopes) THEN Returns(NoGrant)
             ELSE Returns(AccessToken(token,
                     Get(decoded, "appid", Get(decoded, "azp", verifier.client_id)),
                     scopes, Get(decoded, "exp", None)))

\* BearerAuthMiddleware.dispatch; an Authorization header is the sequence of
\* its whitespace-separated parts (what auth_header.split() returns)
BearerDispatch(mw, path, headers) ==
    IF path = "/health" THEN Pass
    ELSE IF ~mw.oauth_enabled \/ mw.token_verifier = NoVerifier THEN Pass
    ELSE LET parts == Get(headers, "Authorization", <<>>) IN
         IF parts = <<>> THEN Unauthorized("Missing Authorization header")
         ELSE IF Len(parts) # 2 \/ Lower(parts[1]) # "bearer"
              THEN Unauthorized("Invalid Authorization header format")
         ELSE LET outcome == verify_token(mw.token_verifier, parts[2]) IN
              IF outcome.kind = "raise"          \* except Exception
              THEN Unauthorized("Token verification failed")
              ELSE IF outcome.value = NoGrant
              THEN Unauthorized("Invalid or expired access token")
              ELSE Pass

\* The tokens of the model, for the tenant and client of the configurations:
\* one Entra ID issues, and one that has expired
Claims(exp, iss, aud) ==
    Member("exp", exp) @@ Member("iss", iss) @@ Member("aud", aud)
TokValid == JWT("found", "jwt", "valid",
                Claims(3, Issuer("tenant"), StringClaim(<<"api://", "client">>))
                @@ Member("scp", UserMCPRead))
TokExpired == JWT("found", "jwt", "valid",
                  Claims(1, Issuer("tenant"), StringClaim(<<"api://", "client">>))
                  @@ Member("scp", UserMCPRead))

\* The middleware stack of the Starlette app built by create_app()
\* (variant: create_app adds no middleware to the application)
Middleware_Open(mw, path, headers) == Pass
Middleware(mw, path, headers) ==
    CASE mw.cls = "APIKeyMiddleware"     -> APIKeyDispatch(mw, path, headers)
      [] mw.cls = "BearerAuthMiddleware" -> BearerDispatch(mw, path, headers)
      [] OTHER                           -> Pass

\* Configurations and request headers drawn in the bridge specification
BridgeConfigs ==
    { [method |-> "NO-AUTH"],
      [method |-> "API-KEY", api_keys |-> {"k1", "k2"}],
      [method |-> "OAUTH", oauth_tenant_id |-> "tenant", oauth_client_id |-> "client"] }

BridgeHeaders ==
    { <<>>,
      [Authorization |-> <<"Bearer", TokValid>>],
      [Authorization |-> <<"Bearer", TokExpired>>],
      [Authorization |-> <<"Basic", "abc">>],
      ("X-API-Key" :> "k1"),
      ("X-API-Key" :> "k2"),
      ("X-API-Key" :> ""),
      ("X-API-Key" :> "wrong") }


\* ------------------------------------------------------- session registry
\* asyncio.Queue: full() is false for every length when maxsize <= 0
Full(q) == QueueMaxsize > 0 /\ Len(q) >= QueueMaxsize

\* Queue.put_nowait / Queue.get_nowait on a deque: append right, pop left
\* (variants: appendleft instead of append; a get that leaves the item)
QueuePut_Front(q, item) == <<item>> \o q
QueuePut(q, item) == Append(q, item)
QueueHead(q) == Head(q)
QueueRest_Keep(q) == q
QueueRest(q) == Tail(q)

\* mcp_sse_endpoint: _sse_sessions[session_id] = message_queue
\* (variant: the registry is replaced by one holding the new session only)
Install_Only(sessions, session_id) == {session_id}
Install(sessions, session_id) == sessions \cup {session_id}

\* event_generator, finally: if session_id in _sse_sessions: del ...
\* (variant: the registry is cleared)
Destroy_Clear(sessions, session_id) == {}
Destroy(sessions, session_id) ==
    IF session_id \in sessions THEN sessions \ {session_id} ELSE sessions

\* Whether closing the generator runs its finally block: only a generator
\* whose body was entered (it is inside the try) has a finally to run
RunsFinally(pc) == pc # "created"

\* ------------------------------------------------------------ HTTP replies
EmptyBody == [kind |-> "empty"]

\* One completed HTTP exchange: the request and the response it got
\* (called: the backend calls the handler made; req: the number of the POST)
Exchange(verb, path, headers, sessionId, body, status, response, called, req) ==
    [verb |-> verb, path |-> path, headers |-> headers, sessionId |-> sessionId,
     body |-> body, status |-> status, response |-> response,
     called |-> called, req |-> req]

NoExchange == Exchange("-", "-", <<>>, None, EmptyBody, 0, EmptyBody, <<>>, 0)

\* ---------------------------------------------------------- SSE endpoint
\* (variant: the session event announces another id)
SessionEvent_Ghost(session_id) == [event |-> "session", sid |-> Ghost]
SessionEvent(session_id)  == [event |-> "session", sid |-> session_id]
EndpointEvent(session_id) == [event |-> "endpoint",
                              url |-> <<"/message?sessionId=", session_id>>]
MessageEvent(item)        == [event |-> "message", data |-> item.response,
                              req |-> item.req]
KeepaliveEvent            == [comment |-> "keepalive"]

\* GET /sse
SseConnect(headers) ==
    /\ uuids + nposts < MaxRequests
    /\ LET verdict == Middleware(auth_middleware, "/sse", headers) IN
       IF verdict.status = 401
       THEN /\ last' = Exchange("GET", "/sse", headers, None, EmptyBody,
                                401, verdict.body, <<>>, 0)
            /\ UNCHANGED <<sse_sessions, queue, conn, uuids>>
       ELSE LET session_id == uuid4(uuids + 1) IN
            /\ uuids' = uuids + 1
            /\ sse_sessions' = Install(sse_sessions, session_id)
            /\ queue' = (session_id :> <<>>) @@ queue
            /\ conn' = (session_id :> [pc |-> "created", out |-> <<>>,
                                       keepalives |-> 0]) @@ conn
            /\ last' = Exchange("GET", "/sse", headers, None, EmptyBody,
                                200, [kind |-> "stream", sid |-> session_id], <<>>, 0)
    /\ UNCHANGED <<AUTH_CFG, auth_middleware, backend, inflight, nposts, acked>>

\* event_generator: the first two yields
Announce(s) ==
    /\ s \in DOMAIN conn
    /\ conn[s].pc \in {"created", "session"}
    /\ conn' = [conn EXCEPT ![s] =
                 IF @.pc = "created"
                 THEN [@ EXCEPT !.pc = "session",
                                !.out = Append(@, SessionEvent(s))]
                 ELSE [@ EXCEPT !.pc = "streaming",
                                !.out = Append(@, EndpointEvent(s))]]
    /\ last' = NoExchange
    /\ UNCHANGED <<AUTH_CFG, auth_middleware, backend, sse_sessions, queue, uuids, inflight,
                   nposts, acked>>

\* Python values a tool call can hand back, each with its type
Text(s) == [type |-> "str", value |-> s]
Number(n) == [type |-> "int", value |-> n]
Bytes(b) == [type |-> "bytes", value |-> b]
NoneValue == [type |-> "None"]
DictValue(d) == [type |-> "dict", entries |-> d]
ListValue(items) == [type |-> "list", items |-> items]
TupleValue(items) == [type |-> "tuple", items |-> items]
\* a Pydantic model (it has model_dump), by its fields
ModelObject(fields) == [type |-> "model", fields |-> fields]

\* str(value): a str is its own string form
StrOf(value) ==
    IF value.type = "str" THEN value
    ELSE [type |-> "str", value |-> "str()", of |-> value]

\* item.model_dump(exclude_none=True)
model_dump(item) ==
    DictValue([n \in {m \in DOMAIN item.fields : item.fields[m] # NoneValue}
                 |-> item.fields[n]])

\* json.dumps(message) succeeds unless the tool content holds a value json
\* cannot encode
Serializable(response) ==
    ~("result" \in DOMAIN response /\ "content" \in DOMAIN response.result
        /\ \E i \in 1..Len(response.result.content) :
              \E k \in DOMAIN response.result.content[i].entries :
                  response.result.content[i].entries[k].type = "bytes")

\* event_generator loop: message_queue.get() returned; json.dumps either
\* gives the message event or raises, which ends the generator through
\* "except Exception" and "finally"
StreamMessage(s) ==
    /\ s \in DOMAIN conn
    /\ conn[s].pc = "streaming"
    /\ queue[s] # <<>>
    /\ LET item == QueueHead(queue[s]) IN
       /\ queue' = [queue EXCEPT ![s] = QueueRest(@)]
       /\ IF Serializable(item.response)
          THEN /\ conn' = [conn EXCEPT ![s].out = Append(@, MessageEvent(item))]
               /\ UNCHANGED sse_sessions
          ELSE /\ conn' = [conn EXCEPT ![s].pc = "closed"]
               /\ sse_sessions' = Destroy(sse_sessions, s)
    /\ last' = NoExchange
    /\ UNCHANGED <<AUTH_CFG, auth_middleware, backend, uuids, inflight, nposts, acked>>

\* event_generator loop: asyncio.TimeoutError after 15 s
\* (variant: the timed-out get takes the head of the queue with it)
StreamKeepalive_Drop(s) ==
    /\ s \in DOMAIN conn
    /\ conn[s].pc = "streaming"
    /\ conn[s].keepalives < MaxKeepalives
    /\ conn' = [conn EXCEPT ![s].out = Append(@, KeepaliveEvent),
                            ![s].keepalives = @ + 1]
    /\ queue' = [queue EXCEPT ![s] = IF @ = <<>> THEN @ ELSE Tail(@)]
    /\ last' = NoExchange
    /\ UNCHANGED <<AUTH_CFG, auth_middleware, backend, sse_sessions, uuids, inflight,
                   nposts, acked>>
StreamKeepalive(s) ==
    /\ s \in DOMAIN conn
    /\ conn[s].pc = "streaming"
    /\ conn[s].keepalives < MaxKeepalives
    /\ conn' = [conn EXCEPT ![s].out = Append(@, KeepaliveEvent),
                            ![s].keepalives = @ + 1]
    /\ last' = NoExchange
    /\ UNCHANGED <<AUTH_CFG, auth_middleware, backend, sse_sessions, queue, uuids, inflight,
                   nposts, acked>>

\* The client disconnects (or the response task is cancelled): the generator
\* is closed wherever it is
Disconnect(s) ==
    /\ s \in DOMAIN conn
    /\ conn[s].pc # "closed"
    /\ conn' = [conn EXCEPT ![s].pc = "closed"]
    /\ sse_sessions' = IF RunsFinally(conn[s].pc)
                       THEN Destroy(sse_sessions, s) ELSE sse_sessions
    /\ last' = NoExchange
    /\ UNCHANGED <<AUTH_CFG, auth_middleware, backend, queue, uuids, inflight, nposts, acked>>

\* GET /health
Health(headers) ==
    /\ LET verdict == Middleware(auth_middleware, "/health", headers) IN
       last' = IF verdict.status = 401
               THEN Exchange("GET", "/health", headers, None, EmptyBody,
                             401, verdict.body, <<>>, 0)
               ELSE Exchange("GET", "/health", headers, None, EmptyBody,
                             200, [kind |-> "text", text |-> "OK"], <<>>, 0)
    /\ UNCHANGED <<AUTH_CFG, auth_middleware, backend, sse_sessions, queue, conn, uuids, inflight,
                   nposts, acked>>

\* ------------------------------------------------------ POST /message

JsonBody(message) == [kind |-> "json", type |-> "object", message |-> message]
ArrayBody == [kind |-> "json", type |-> "array"]
\* JSON texts whose value is not an object: json.loads returns a list, a str,
\* a number or None
NonObjectBodies == {[kind |-> "json", type |-> t] :
                        t \in {"array", "string", "number", "null"}}

ParamsObject == [type |-> "object", name |-> "get", arguments |-> "args"]
ParamsArray  == [type |-> "array"]
EmptyDict    == [type |-> "object"]

Methods == {"initialize", "tools/list", "tools/call",
            "notifications/initialized", "bogus/method"}
Ids == {None, "7"}       \* "id": null and "id": "7"

MethodPart == {EmptyObject} \cup {Member("method", m) : m \in Methods}
IdPart     == {EmptyObject} \cup {Member("id", i) : i \in Ids}

Messages ==
    {m @@ i : m \in MethodPart, i \in IdPart}
    \cup {Member("method", "tools/call") @@ i @@ Member("params", p) :
            i \in IdPart, p \in {ParamsObject, ParamsArray}}

Bodies == {[kind |-> "empty"], [kind |-> "badutf8"], [kind |-> "badjson"]}
          \cup NonObjectBodies \cup {JsonBody(m) : m \in Messages}

JsonRpc(json) == [kind |-> "jsonrpc", json |-> json]
\* (variant: the diagnostic wrapped as a JSON-RPC error)
Diagnostic_Envelope(text) ==
    [kind |-> "jsonrpc",
     json |-> [jsonrpc |-> "2.0", id |-> None,
               error |-> [code |-> -32600, message |-> text]]]
Diagnostic(text) == [kind |-> "json", json |-> [error |-> text]]

InitializeReply(msg_id) ==
    [jsonrpc |-> "2.0", id |-> msg_id,
     result |-> [protocolVersion |-> "2024-11-05",
                 serverInfo |-> [name |-> "Redis MCP Server", version |-> "0.3.4"]]]
ToolsListReply(msg_id, tools) ==
    [jsonrpc |-> "2.0", id |-> msg_id, result |-> [tools |-> tools]]
ToolsCallReply(msg_id, content) ==
    [jsonrpc |-> "2.0", id |-> msg_id, result |-> [content |-> content]]
ErrorReply(msg_id, code, message) ==
    [jsonrpc |-> "2.0", id |-> msg_id,
     error |-> [code |-> code, message |-> message]]

\* line 182: use_sse = session_id and session_id in _sse_sessions
UseSse(session_id, sessions) ==
    session_id \notin {None, ""} /\ session_id \in sessions

\* (variant: only the two known notification methods count)
IsNotification_Known(message) ==
    /\ Get(message, "id", None) = None
    /\ Get(message, "method", None) \in {"notifications/initialized",
                                         "notifications/cancelled"}
\* line 188: a message is handled as a notification when message.get("id")
\* is None, which is so for an absent id and for "id": null alike
IsNotification(message) == Get(message, "id", None) = None

\* "except Exception" of mcp_message_endpoint: message.get("id") when the
\* local exists
InternalError(message) ==
    [k |-> "respond", status |-> 500,
     response |-> JsonRpc(ErrorReply(Get(message, "id", None), -32603,
                                     "Internal error"))]

\* The handler up to its first suspension: either the HTTP response, or the
\* backend call it awaits, or the reply to deliver
Handle(body, session_id, sessions) ==
    IF body.kind = "empty"
    THEN [k |-> "respond", status |-> 400,
          response |-> Diagnostic("Empty request body")]
    ELSE IF body.kind = "badutf8"          \* body.decode() raises ValueError
    THEN InternalError(EmptyObject)
    ELSE IF body.kind = "badjson"
    THEN [k |-> "respond", status |-> 400,
          response |-> JsonRpc(ErrorReply(None, -32700, "Parse error: Invalid JSON"))]
    ELSE IF body.type # "object"
         \* message.get raises AttributeError, and so does message.get("id")
         \* in the except block: the exception leaves the handler
    THEN [k |-> "respond", status |-> 500,
          response |-> [kind |-> "text", text |-> "Internal Server Error"]]
    ELSE LET message == body.message
             method  == Get(message, "method", None)
             msg_id  == Get(message, "id", None)
             params  == Get(message, "params", EmptyDict)
             use_sse == UseSse(session_id, sessions)
         IN  IF IsNotification(message)
             THEN [k |-> "respond", status |-> 204, response |-> EmptyBody]
             ELSE IF method = "initialize"
             THEN [k |-> "deliver", use_sse |-> use_sse,
                   reply |-> InitializeReply(msg_id)]
             ELSE IF method = "tools/list"
             THEN [k |-> "await", use_sse |-> use_sse, on |-> "listTools"]
             ELSE IF method = "tools/call"
             THEN IF params.type # "object"      \* params.get raises
                  THEN InternalError(message)
                  ELSE [k |-> "await", use_sse |-> use_sse, on |-> "callTool"]
             ELSE [k |-> "deliver", use_sse |-> use_sse,
                   reply |-> ErrorReply(msg_id, -32601, "Method not found")]

\* What the backend can answer
ListOutcomes == {"catalog", "raise"}
CallOutcomes == {"text", "unserializable", "raise"}

\* The results the outcomes of call_tool stand for: a list with one
\* TextContent, a list with a dict json cannot encode, an exception
Raise == [type |-> "raise"]
TextContent(text) ==
    ModelObject(Member("type", Text("text")) @@ Member("text", Text(text))
                @@ Member("annotations", NoneValue))
ResultOf(outcome) ==
    CASE outcome = "text" -> ListValue(<<TextContent("OK")>>)
      [] outcome = "unserializable" ->
            ListValue(<<DictValue(Member("type", Text("blob"))
                                  @@ Member("data", Bytes("b")))>>)
      [] OTHER -> Raise

\* lines 249-255: the list of blocks in the result, None when it has none
\* (variant: the first component of a tuple is not looked at)
content_list_ListOnly(result) ==
    IF result.type = "list" THEN result ELSE NoneValue
content_list(result) ==
    IF result.type = "list" THEN result
    ELSE IF result.type = "tuple" /\ Len(result.items) >= 1 THEN result.items[1]
    ELSE NoneValue

\* lines 260-268: one block of the content for one item of the list
Block(item) ==
    IF item.type = "model" THEN model_dump(item)
    ELSE IF item.type = "dict" THEN item
    ELSE DictValue(Member("type", Text("text")) @@ Member("text", StrOf(item)))

\* "for item in content_list" raises TypeError on a value that is no sequence
Iterable(value) == value.type \in {"list", "tuple"}

\* lines 242-291: the reply for what call_tool returned or raised
ResolveCall(message, result) ==
    LET msg_id == Get(message, "id", None) IN
    IF result = Raise THEN ErrorReply(msg_id, -32000, "Tool execution failed")
    ELSE LET blocks == content_list(result) IN
         IF blocks = NoneValue
         THEN ToolsCallReply(msg_id, <<Block(StrOf(result))>>)
         ELSE IF ~Iterable(blocks)          \* except Exception as tool_error
         THEN ErrorReply(msg_id, -32000, "Tool execution failed")
         ELSE ToolsCallReply(msg_id,
                 [i \in 1..Len(blocks.items) |-> Block(blocks.items[i])])

\* The reply built when the awaited backend call returns or raises
\* (variant: a raising tool reported as an internal error)
Resolve_Internal(on, message, outcome) ==
    LET msg_id == Get(message, "id", None) IN
    IF on = "listTools"
    THEN [jsonrpc |-> "2.0", id |-> msg_id,
          result |-> [tools |-> IF outcome = "raise" THEN <<>> ELSE <<"tool">>]]
    ELSE IF outcome = "raise"
         THEN [jsonrpc |-> "2.0", id |-> msg_id,
               error |-> [code |-> -32603, message |-> "Internal error"]]
         ELSE ResolveCall(message, ResultOf(outcome))
\* (variant: a raising catalog query reported as an internal error)
Resolve_ListError(on, message, outcome) ==
    LET msg_id == Get(message, "id", None) IN
    IF on = "listTools"
    THEN IF outcome = "raise"
         THEN ErrorReply(msg_id, -32603, "Internal error")
         ELSE ToolsListReply(msg_id, <<"tool">>)
    ELSE ResolveCall(message, ResultOf(outcome))
Resolve(on, message, outcome) ==
    LET msg_id == Get(message, "id", None) IN
    IF on = "listTools"
    THEN ToolsListReply(msg_id, IF outcome = "raise" THEN <<>> ELSE <<"tool">>)
    ELSE ResolveCall(message, ResultOf(outcome))

\* (variants: the reply always goes to the HTTP body; the key is not looked
\* up again, as with setdefault)
DeliveryPath_Direct(use_sse, session_id, sessions) == "direct"
DeliveryPath_Revive(use_sse, session_id, sessions) ==
    IF use_sse THEN "enqueue" ELSE "direct"
\* lines 303-329: where the resolved reply goes
DeliveryPath(use_sse, session_id, sessions) ==
    IF use_sse
    THEN IF session_id \in sessions THEN "enqueue" ELSE "not_found"
    ELSE "direct"

\* The handler returns its HTTP response
Finish(rq, status, response, called) ==
    last' = Exchange("POST", "/message", rq.headers, rq.sessionId, rq.body,
                     status, response, called, rq.req)

\* lines 303-329 for the handler of request rq holding the resolved reply
Deliver(rq, use_sse, reply, called) ==
    LET path == DeliveryPath(use_sse, rq.sessionId, sse_sessions)
        item == [response |-> reply, req |-> rq.req]
    IN
    IF path = "enqueue"
    THEN IF Full(queue[rq.sessionId])
         THEN \* await put() suspends holding the queue object
              /\ inflight' = (rq.req :> [rq |-> rq, use_sse |-> use_sse,
                                         on |-> "put", reply |-> reply,
                                         called |-> called])
                              @@ [n \in DOMAIN inflight \ {rq.req} |-> inflight[n]]
              /\ last' = NoExchange
              /\ UNCHANGED <<queue, acked>>
         ELSE /\ queue' = [queue EXCEPT ![rq.sessionId] = QueuePut(@, item)]
              /\ acked' = Append(acked, [req |-> rq.req, sid |-> rq.sessionId])
              /\ Finish(rq, 202, EmptyBody, called)
              /\ inflight' = [n \in DOMAIN inflight \ {rq.req} |-> inflight[n]]
    ELSE /\ IF path = "not_found"
            THEN Finish(rq, 404, Diagnostic("SSE session not found or expired"),
                        called)
            ELSE IF Serializable(reply)
            THEN Finish(rq, 200, JsonRpc(reply), called)
            ELSE \* json.dumps(response) raises TypeError
                 Finish(rq, 500, InternalError(rq.body.message).response, called)
         /\ inflight' = [n \in DOMAIN inflight \ {rq.req} |-> inflight[n]]
         /\ UNCHANGED <<queue, acked>>

\* POST /message arrives: middleware, then the handler up to its first
\* suspension or to its response
PostMessage(headers, sessionId, body) ==
    /\ uuids + nposts < MaxRequests
    /\ nposts' = nposts + 1
    /\ LET rq == [req |-> nposts + 1, headers |-> headers,
                  sessionId |-> sessionId, body |-> body]
           verdict == Middleware(auth_middleware, "/message", headers)
       IN
       IF verdict.status = 401
       THEN /\ Finish(rq, 401, verdict.body, <<>>)
            /\ UNCHANGED <<queue, inflight, acked>>
       ELSE LET step == Handle(body, sessionId, sse_sessions) IN
            IF step.k = "respond"
            THEN /\ Finish(rq, step.status, step.response, <<>>)
                 /\ UNCHANGED <<queue, inflight, acked>>
            ELSE IF step.k = "await"
            THEN /\ inflight' = (rq.req :> [rq |-> rq, use_sse |-> step.use_sse,
                                            on |-> step.on, reply |-> EmptyObject,
                                            called |-> <<step.on>>]) @@ inflight
                 /\ last' = NoExchange
              /\ UNCHANGED <<queue, acked>>
            ELSE Deliver(rq, step.use_sse, step.reply, <<>>)
    /\ UNCHANGED <<AUTH_CFG, auth_middleware, backend, sse_sessions, conn, uuids>>

\* A suspended handler resumes: the backend call returned or raised, or the
\* queue it waits to put into has room
PostResume(n) ==
    /\ n \in DOMAIN inflight
    /\ LET h == inflight[n] IN
       IF h.on = "put"
       THEN /\ ~Full(queue[h.rq.sessionId])
            /\ queue' = [queue EXCEPT ![h.rq.sessionId] =
                            QueuePut(@, [response |-> h.reply, req |-> n])]
            /\ acked' = Append(acked, [req |-> n, sid |-> h.rq.sessionId])
            /\ Finish(h.rq, 202, EmptyBody, h.called)
            /\ inflight' = [m \in DOMAIN inflight \ {n} |-> inflight[m]]
       ELSE \E outcome \in (IF h.on = "listTools" THEN ListOutcomes ELSE CallOutcomes) :
               Deliver(h.rq, h.use_sse,
                       Resolve(h.on, h.rq.body.message, outcome), h.called)
    /\ UNCHANGED <<AUTH_CFG, auth_middleware, backend, sse_sessions, conn, uuids, nposts>>

\* The handler awaiting get_tools_list resumes: with the catalog, or with the
\* [] get_tools_list returns when mcp.list_tools() raised (the outcome is
\* kept, after the name of the call, in the exchange's record of calls)
ListReturns(n, outcome) ==
    /\ n \in DOMAIN inflight
    /\ inflight[n].on = "listTools"
    /\ LET h == inflight[n] IN
       Deliver(h.rq, h.use_sse, Resolve("listTools", h.rq.body.message, outcome),
               Append(h.called, outcome))
    /\ UNCHANGED <<AUTH_CFG, auth_middleware, backend, sse_sessions, conn, uuids, nposts>>

\* The handler awaiting call_tool resumes with the value the tool returned
\* (kept, after the name of the call, in the exchange's record of calls)
CallReturns(n, result) ==
    /\ n \in DOMAIN inflight
    /\ inflight[n].on = "callTool"
    /\ LET h == inflight[n] IN
       Deliver(h.rq, h.use_sse, ResolveCall(h.rq.body.message, result),
               Append(h.called, result))
    /\ UNCHANGED <<AUTH_CFG, auth_middleware, backend, sse_sessions, conn, uuids,
                   nposts>>

\* ------------------------------------------------------------- tools
\* REDIS_CFG, as far as get_connection() branches on it
PasswordAuth == [entraid_auth_method |-> None]
EntraIdAuth == [entraid_auth_method |-> "service_principal"]

\* RedisConnectionManager._instance, semantic_cache._vectorizer and
\* semantic_cache._cache_instances at import, and no tool call running
Backend(redis_cfg) ==
    [REDIS_CFG |-> redis_cfg, instance |-> None, vectorizer |-> None,
     cache_instances |-> {}, running |-> EmptyObject]

\* One blocking step of a tool call and the thread it runs on: "loop" is
\* the event-loop thread (a plain call in the coroutine), "executor" a
\* thread of the default executor (loop.run_in_executor)
Blocking(work, thread) == [work |-> work, thread |-> thread]

\* run_redis_command(func, ...)
run_redis_command(func) == <<Blocking(func, "executor")>>

\* RedisConnectionManager.get_connection(): the steps it takes in the caller
get_connection(b) ==
    IF b.instance # None THEN <<>>
    ELSE (IF b.REDIS_CFG.entraid_auth_method # None
          THEN <<Blocking("_create_entraid_credential_provider", "loop")>>
          ELSE <<>>)
         \o <<Blocking("redis_class", "loop")>>

\* semantic_cache._get_vectorizer()
get_vectorizer(b) ==
    IF b.vectorizer # None THEN <<>>
    ELSE <<Blocking("HFTextVectorizer", "loop")>>

\* semantic_cache._get_or_create_cache(cache_name, ...)
CacheKey == "cache:0.4"
get_or_create_cache(b) ==
    IF CacheKey \in b.cache_instances THEN <<>>
    ELSE get_connection(b) \o get_vectorizer(b)
         \o <<Blocking("SemanticCache", "loop")>>

\* The tools of the model: string.set, list.lpush with an expiry, and
\* semantic_cache.semantic_cache_store; any other name is no tool
ToolNames == {"set", "lpush", "semantic_cache_store"}
Tool(name, b) ==
    CASE name = "set" -> get_connection(b) \o run_redis_command("set")
      [] name = "lpush" -> get_connection(b) \o run_redis_command("lpush")
                             \o run_redis_command("expire")
      [] name = "semantic_cache_store" ->
            get_or_create_cache(b) \o run_redis_command("cache.store")
      [] OTHER -> <<>>

\* What a finished step leaves in the module globals
Memoise(b, step) ==
    CASE step.work = "redis_class"      -> [b EXCEPT !.instance = "Redis"]
      [] step.work = "HFTextVectorizer" -> [b EXCEPT !.vectorizer = "HFTextVectorizer"]
      [] step.work = "SemanticCache"    ->
            [b EXCEPT !.cache_instances = @ \cup {CacheKey}]
      [] OTHER -> b

\* The event-loop thread is free when no tool call is inside a step on it
LoopFree ==
    \A n \in DOMAIN backend.running :
        Len(backend.running[n]) > 0 => Head(backend.running[n]).thread # "loop"

ToolName(n) ==
    LET params == Get(inflight[n].rq.body.message, "params", EmptyDict)
    IN  IF "name" \in DOMAIN params THEN params.name ELSE None

\* mcp.call_tool(tool_name, arguments) enters the tool: the steps ahead of
\* it, the first one in progress
ToolBegin(n) ==
    /\ n \in DOMAIN inflight
    /\ inflight[n].on = "callTool"
    /\ n \notin DOMAIN backend.running
    /\ LoopFree
    /\ backend' = [backend EXCEPT !.running =
                      (n :> Tool(ToolName(n), backend)) @@ @]
    /\ last' = NoExchange
    /\ UNCHANGED <<AUTH_CFG, auth_middleware, sse_sessions, queue, conn, uuids,
                   inflight, nposts, acked>>

\* The step in progress ends and the next one starts.  After a step on the
\* loop the coroutine just goes on; after a step in the executor it is
\* resumed by the loop
ToolAdvance(n) ==
    /\ n \in DOMAIN backend.running
    /\ Len(backend.running[n]) > 0
    /\ LET step == Head(backend.running[n]) IN
       /\ step.thread = "executor" => LoopFree
       /\ backend' = [Memoise(backend, step) EXCEPT !.running[n] = Tail(@)]
    /\ last' = NoExchange
    /\ UNCHANGED <<AUTH_CFG, auth_middleware, sse_sessions, queue, conn, uuids,
                   inflight, nposts, acked>>

\* The tool returned (or raised): the handler awaiting call_tool resumes
ToolReturned(n) ==
    /\ n \in DOMAIN backend.running
    /\ Len(backend.running[n]) = 0

\* ------------------------------------------------------- specification
SessionIds == {None, Ghost} \cup Created

\* create_app() runs once, at import
InitWith(configs) ==
    /\ AUTH_CFG \in configs
    /\ auth_middleware \in {get_auth_middleware(AUTH_CFG, k) : k \in Constructions}
    /\ backend = Backend(PasswordAuth)
    /\ sse_sessions = {}
    /\ queue = EmptyObject
    /\ conn = EmptyObject
    /\ uuids = 0
    /\ inflight = EmptyObject
    /\ nposts = 0
    /\ last = NoExchange
    /\ acked = <<>>

\* The bridge: sessions, streams and the delivery of replies.  No checker is
\* installed; the requests are the Requests that resolve a reply.
Requests == {JsonBody(Member("method", m) @@ Member("id", "7")) :
                m \in {"initialize", "tools/list", "tools/call", "bogus/method"}}

Init == InitWith({[method |-> "NO-AUTH"]})

Next ==
    \/ SseConnect(<<>>)
    \/ \E s \in Created : Announce(s)
    \/ \E s \in Created : StreamMessage(s)
    \/ \E s \in Created : StreamKeepalive(s)
    \/ \E s \in Created : Disconnect(s)
    \/ \E s \in SessionIds, b \in Requests : PostMessage(<<>>, s, b)
    \/ \E n \in DOMAIN inflight : PostResume(n)

Spec == Init /\ [][Next]_vars

\* The dispatcher: every request body, against sessions that come and go
DispatchNext ==
    \/ SseConnect(<<>>)
    \/ \E s \in Created : Disconnect(s)
    \/ \E s \in SessionIds, b \in Bodies : PostMessage(<<>>, s, b)
    \/ \E n \in DOMAIN inflight : PostResume(n)

DispatchSpec == Init /\ [][DispatchNext]_vars

\* The checker in front of the three routes, for each configuration
AuthBodies == {JsonBody(Member("method", "initialize") @@ Member("id", "7")),
               JsonBody(Member("method", "tools/call") @@ Member("id", "7"))}

AuthInit == InitWith(BridgeConfigs)

AuthNext ==
    \/ \E h \in BridgeHeaders : SseConnect(h)
    \/ \E h \in BridgeHeaders : Health(h)
    \/ /\ DOMAIN inflight = {}         \* requests are sent one at a time
       /\ \E h \in BridgeHeaders, s \in SessionIds, b \in AuthBodies :
             PostMessage(h, s, b)
    \/ \E n \in DOMAIN inflight : PostResume(n)

AuthSpec == AuthInit /\ [][AuthNext]_vars

\* Startup: create_app() under every configuration, then requests
ConfigMethods == {None, "NO-AUTH", "api-key", "API-KEY", "Api-Key",
                  "oauth", "OAUTH", "ldap"}
Optional(name, values) == {EmptyObject} \cup {Member(name, v) : v \in values}
Configs ==
    {m @@ k @@ t @@ c :
        m \in Optional("method", ConfigMethods),
        k \in Optional("api_keys", {{}, {"k1"}, {"k1", "k2"}}),
        t \in Optional("oauth_tenant_id", {"", "tenant"}),
        c \in Optional("oauth_client_id", {"client"})}

\* app = create_app(): the checker get_auth_middleware returns is installed;
\* an exception it raises leaves create_app and the import of the module
CreateApp(construction) ==
    /\ auth_middleware = Unstarted
    /\ auth_middleware' = get_auth_middleware(AUTH_CFG, construction)
    /\ last' = NoExchange
    /\ UNCHANGED <<AUTH_CFG, backend, sse_sessions, queue, conn, uuids, inflight,
                   nposts, acked>>

Started == auth_middleware.cls \notin {"unstarted", "raised"}

ConfigInit ==
    /\ AUTH_CFG \in Configs
    /\ auth_middleware = Unstarted
    /\ backend = Backend(PasswordAuth)
    /\ sse_sessions = {}
    /\ queue = EmptyObject
    /\ conn = EmptyObject
    /\ uuids = 0
    /\ inflight = EmptyObject
    /\ nposts = 0
    /\ last = NoExchange
    /\ acked = <<>>

ConfigNext ==
    \/ \E k \in Constructions : CreateApp(k)
    \/ Started /\ \E h \in BridgeHeaders : Health(h)
    \/ Started /\ \E h \in BridgeHeaders : SseConnect(h)

ConfigSpec == ConfigInit /\ [][ConfigNext]_vars

\* The lifetime of the application: after app = create_app() the entries of
\* AUTH_CFG are assigned new values while requests and session events go on.
\* create_app() is called at import only, so nothing reads AUTH_CFG again
\* (variant: the checker is selected again from the changed configuration)
Rebind_Reload(name, value) ==
    /\ AUTH_CFG' = (name :> value) @@ AUTH_CFG
    /\ AUTH_CFG' # AUTH_CFG
    /\ auth_middleware' = get_auth_middleware(AUTH_CFG', "ok")
    /\ last' = NoExchange
    /\ UNCHANGED <<backend, sse_sessions, queue, conn, uuids, inflight, nposts,
                   acked>>
Rebind(name, value) ==
    /\ AUTH_CFG' = (name :> value) @@ AUTH_CFG
    /\ AUTH_CFG' # AUTH_CFG
    /\ last' = NoExchange
    /\ UNCHANGED <<auth_middleware, backend, sse_sessions, queue, conn, uuids,
                   inflight, nposts, acked>>

Rebindings == {<<"method", "NO-AUTH">>, <<"method", "API-KEY">>,
               <<"method", "OAUTH">>, <<"api_keys", {"wrong"}>>}
LifetimeHeaders == {<<>>, ("X-API-Key" :> "k1"), ("X-API-Key" :> "wrong")}

LifetimeNext ==
    \/ \E h \in LifetimeHeaders : SseConnect(h)
    \/ \E s \in Created : Announce(s)
    \/ \E s \in Created : Disconnect(s)
    \/ \E h \in LifetimeHeaders : Health(h)
    \/ \E h \in LifetimeHeaders, s \in {None} \cup sse_sessions :
          PostMessage(h, s, JsonBody(Member("method", "initialize")
                                     @@ Member("id", "7")))
    \/ \E r \in Rebindings : Rebind(r[1], r[2])

LifetimeSpec == AuthInit /\ [][LifetimeNext]_vars

\* The token verifier of an OAUTH configuration, applied to tokens, next to
\* requests that present such tokens to the application
VerifyConfigs ==
    {[method |-> "OAUTH", oauth_tenant_id |-> "tenant", oauth_client_id |-> "client"]
       @@ r : r \in Optional("oauth_required_scopes",
                             {<<>>, <<MCPRead>>, <<MCPRead, MCPWrite>>})}

AudClaims == {StringClaim(<<"api://", "client">>), StringClaim(<<"client">>),
              StringClaim(<<"api://", "other">>), StringClaim(<<"other">>),
              StringClaim(<<"client", Dot, "x">>),
              ArrayClaim(<<<<"other">>, <<"client">>>>),
              ArrayClaim(<<<<"other">>>>)}
ScpClaims == {MCPRead, UserMCPRead, OtherScope, <<>>,
              UserMCPRead \o <<Space>> \o ApiMCPWrite,
              MCPRead \o <<Space, Space>> \o MCPWrite}
RolesClaims == {<<MCPRead>>, <<MCPRead, MCPWrite>>, <<OtherScope>>}

\* Tokens Entra ID signed, over the audiences and scopes above
SignedTokens ==
    {JWT("found", "jwt", "valid",
         Member("exp", 3) @@ Member("iss", Issuer("tenant")) @@ a @@ s @@ r) :
        a \in Optional("aud", AudClaims), s \in Optional("scp", ScpClaims),
        r \in Optional("roles", RolesClaims)}
\* One token for each way of failing before the scopes are looked at
TokMalformed == JWT("found", "malformed", "valid", EmptyObject)
TokUnknownKey == [TokValid EXCEPT !.jwks = "unknown"]
TokBadSignature == [TokValid EXCEPT !.signature = "invalid"]
TokBadIssuer == [TokValid EXCEPT !.claims["iss"] = Issuer("other")]
TokBadAudience == [TokValid EXCEPT !.claims["aud"] = StringClaim(<<"other">>)]
TokBadScope == [TokValid EXCEPT !.claims["scp"] = OtherScope]
FailingTokens == {TokMalformed, TokUnknownKey, TokBadSignature, TokExpired,
                  TokBadIssuer, TokBadAudience, TokBadScope}
Tokens == SignedTokens \cup FailingTokens
VerifyHeaders == {[Authorization |-> <<"Bearer", t>>] :
                     t \in {TokValid} \cup FailingTokens}

\* One call of verify_token and what it gave
Verification(token, outcome) ==
    [verb |-> "verify_token", token |-> token, outcome |-> outcome]
VerifyToken(token) ==
    /\ auth_middleware.cls = "BearerAuthMiddleware"
    /\ last' = Verification(token, verify_token(auth_middleware.token_verifier, token))
    /\ UNCHANGED <<AUTH_CFG, auth_middleware, backend, sse_sessions, queue, conn, uuids,
                   inflight, nposts, acked>>

VerifyInit == InitWith(VerifyConfigs)
VerifyNext ==
    \/ \E t \in Tokens : VerifyToken(t)
    \/ \E h \in VerifyHeaders : SseConnect(h)
    \/ \E h \in VerifyHeaders : Health(h)
VerifySpec == VerifyInit /\ [][VerifyNext]_vars

\* Tool calls next to a stream: every step of the server runs on the one
\* event-loop thread and so waits while a tool call holds that thread
ToolRequests ==
    {JsonBody(Member("method", "tools/call") @@ Member("id", "7")
              @@ Member("params", [type |-> "object", name |-> t,
                                   arguments |-> "args"])) : t \in ToolNames}

LoopInit ==
    /\ AUTH_CFG = [method |-> "NO-AUTH"]
    /\ auth_middleware = get_auth_middleware(AUTH_CFG, "ok")
    /\ backend \in {Backend(PasswordAuth), Backend(EntraIdAuth)}
    /\ sse_sessions = {} /\ queue = EmptyObject /\ conn = EmptyObject
    /\ uuids = 0 /\ inflight = EmptyObject /\ nposts = 0
    /\ last = NoExchange /\ acked = <<>>

LoopNext ==
    \/ LoopFree /\ SseConnect(<<>>)
    \/ LoopFree /\ \E s \in Created : Announce(s)
    \/ LoopFree /\ \E s \in Created : StreamMessage(s)
    \/ LoopFree /\ \E s \in Created : StreamKeepalive(s)
    \/ LoopFree /\ \E s \in {None} \cup sse_sessions, b \in ToolRequests :
                      PostMessage(<<>>, s, b)
    \/ \E n \in DOMAIN inflight : ToolBegin(n)
    \/ \E n \in DOMAIN inflight : ToolAdvance(n)
    \/ LoopFree /\ \E n \in DOMAIN inflight : ToolReturned(n) /\ PostResume(n)

LoopSpec == LoopInit /\ [][LoopNext]_vars

\* The shapes of what call_tool hands back to a tools/call sent without a
\* session: lists of up to two items, tuples around them, other values
ContentItems == {TextContent("hi"), DictValue(Member("k", Text("v"))),
                 Text("plain"), Number("5"), NoneValue}
ContentLists ==
    {ListValue(<<>>)} \cup {ListValue(<<a>>) : a \in ContentItems}
    \cup {ListValue(<<a, b>>) : a, b \in ContentItems}
RawResults == {NoneValue, DictValue(Member("result", Text("raw")))}
FirstComponents == ContentLists \cup {NoneValue, Number("5")}
ToolResults ==
    ContentLists
    \cup {TupleValue(<<>>)}
    \cup {TupleValue(<<f>>) : f \in FirstComponents}
    \cup {TupleValue(<<f, r>>) : f \in FirstComponents, r \in RawResults}
    \cup {Text("done"), Number("5"), NoneValue,
          DictValue(Member("k", Text("v"))), TextContent("hi")}

ContentNext ==
    \/ PostMessage(<<>>, None, JsonBody(Member("method", "tools/call")
                                        @@ Member("id", "7")
                                        @@ Member("params", ParamsObject)))
    \/ \E n \in DOMAIN inflight, r \in ToolResults : CallReturns(n, r)

ContentSpec == Init /\ [][ContentNext]_vars

\* ------------------------------------------------- the Redis connection
\* REDIS_CFG as the credential provider and get_connection() read it (host,
\* port, TLS and cluster settings do not enter any decision modelled here)
RedisCfg(method, tenant_id, client_id, cert_path, managed_identity_client_id) ==
    [entraid_auth_method |-> method,
     entraid_tenant_id |-> tenant_id,
     entraid_client_id |-> client_id,
     entraid_cert_path |-> cert_path,
     entraid_managed_identity_client_id |-> managed_identity_client_id]

\* bool(value) of a configuration value: None and "" are false
\* (variant: the test "value is not None")
Truthy_NotNone(value) == value # None
Truthy(value) == value \notin {None, ""}

ValueError(message) == [cls |-> "ValueError", message |-> message]
ConnectionError == [cls |-> "ConnectionError", message |-> "connect"]

\* What lies outside the process and can fail while a connection is built:
\* reading the certificate, the provider factory, the client constructor
Faults == {"none", "certificate", "provider", "redis_class"}

\* _create_entraid_credential_provider(): the exception or the provider it
\* ends with, and the provider factories it called on the way
NotCalled == [outcome |-> [kind |-> "none"], created |-> <<>>]
create_entraid_credential_provider(cfg, fault) ==
    LET auth_method == Get(cfg, "entraid_auth_method", "service_principal")
        Fails(error) == [outcome |-> Raises(error), created |-> <<>>]
        Creates(provider) ==
            [outcome |-> IF fault = "provider"
                         THEN Raises([cls |-> "Exception", message |-> "provider"])
                         ELSE Returns(provider),
             created |-> <<provider>>]
    IN
    IF auth_method = "service_principal"
    THEN LET tenant_id == Get(cfg, "entraid_tenant_id", None)
             client_id == Get(cfg, "entraid_client_id", None)
             cert_path == Get(cfg, "entraid_cert_path", None)
         IN  IF ~Truthy(tenant_id)
             THEN Fails(ValueError("REDIS_ENTRAID_TENANT_ID is required"))
             ELSE IF ~Truthy(client_id)
             THEN Fails(ValueError("REDIS_ENTRAID_CLIENT_ID is required"))
             ELSE IF ~Truthy(cert_path)
             THEN Fails(ValueError("REDIS_ENTRAID_CERT_PATH is required"))
             ELSE IF fault = "certificate"   \* _load_certificate_credential
             THEN Fails(ValueError("Certificate file not found"))
             ELSE Creates([kind |-> "service_principal",
                           tenant_id |-> tenant_id, client_id |-> client_id])
    ELSE IF auth_method = "managed_identity"
    THEN LET managed_identity_client_id ==
                 Get(cfg, "entraid_managed_identity_client_id", None)
         IN  IF Truthy(managed_identity_client_id)
             THEN Creates([kind |-> "managed_identity",
                           identity_type |-> "USER_ASSIGNED",
                           id_value |-> managed_identity_client_id])
             ELSE Creates([kind |-> "managed_identity",
                           identity_type |-> "SYSTEM_ASSIGNED"])
    ELSE IF auth_method = "default_azure_credential"
    THEN Creates([kind |-> "default_azure_credential"])
    ELSE Fails(ValueError("Invalid REDIS_ENTRAID_AUTH_METHOD"))

\* The key the tool calls of the model work on, as the Redis server holds it
\* (no expiration is written as Redis reports it: a TTL of -1)
NoExpiry == -1
NoKey == [exists |-> FALSE, ttl |-> NoExpiry]

\* The module globals of the tools and the Redis server behind them:
\* REDIS_CFG, RedisConnectionManager._instance, the connections constructed
\* so far and since _instance was last emptied, the key, the tool calls
\* that are running, and semantic_cache._cache_instances
NoInstance == [cls |-> "None"]
Runtime(redis_cfg) ==
    [REDIS_CFG |-> redis_cfg, instance |-> NoInstance, built |-> 0,
     constructed |-> 0, redis |-> NoKey, running |-> EmptyObject,
     cache_instances |-> EmptyObject]

\* get_connection, lines 187-258: the body of "if cls._instance is None"
Construct(b, decode_responses, fault) ==
    LET entraid_auth_method == Get(b.REDIS_CFG, "entraid_auth_method", None)
        provider == IF Truthy(entraid_auth_method)
                    THEN create_entraid_credential_provider(b.REDIS_CFG, fault)
                    ELSE NotCalled
    IN
    IF provider.outcome.kind = "raise"              \* except ...: raise
    THEN [b |-> b, outcome |-> provider.outcome, provider |-> provider]
    ELSE IF fault = "redis_class"                   \* except ...: raise
    THEN [b |-> b, outcome |-> Raises(ConnectionError), provider |-> provider]
    ELSE LET instance ==
                 [cls |-> "Redis", id |-> b.built + 1,
                  decode_responses |-> decode_responses,
                  auth |-> IF provider.outcome.kind = "return"
                           THEN provider.outcome.value
                           ELSE [kind |-> "password"]]
         IN  [b |-> [b EXCEPT !.instance = instance, !.built = @ + 1,
                               !.constructed = @ + 1],
              outcome |-> Returns(instance), provider |-> provider]

\* RedisConnectionManager.get_connection(decode_responses)
\* (variant: a cached connection is reused only for the same decode_responses)
RedisConnectionManager_PerMode(b, decode_responses, fault) ==
    IF b.instance # NoInstance /\ b.instance.decode_responses = decode_responses
    THEN [b |-> b, outcome |-> Returns(b.instance), provider |-> NotCalled]
    ELSE Construct(b, decode_responses, fault)
RedisConnectionManager(b, decode_responses, fault) ==
    IF b.instance # NoInstance
    THEN [b |-> b, outcome |-> Returns(b.instance), provider |-> NotCalled]
    ELSE Construct(b, decode_responses, fault)

\* One call of get_connection, from a tool or a script
GetConnection(decode_responses, fault) ==
    /\ nposts < MaxRequests
    /\ nposts' = nposts + 1
    /\ LET r == RedisConnectionManager(backend, decode_responses, fault) IN
       /\ backend' = r.b
       /\ last' = [verb |-> "get_connection", decode_responses |-> decode_responses,
                   cfg |-> backend.REDIS_CFG, cached |-> backend.instance,
                   outcome |-> r.outcome, provider |-> r.provider]
    /\ UNCHANGED <<AUTH_CFG, auth_middleware, sse_sessions, queue, conn, uuids,
                   inflight, acked>>

\* One call of _create_entraid_credential_provider on its own
CreateProvider(fault) ==
    /\ nposts < MaxRequests
    /\ nposts' = nposts + 1
    /\ last' = [verb |-> "create_provider", cfg |-> backend.REDIS_CFG,
                cached |-> NoInstance, outcome |-> [kind |-> "none"],
                provider |-> create_entraid_credential_provider(backend.REDIS_CFG,
                                                                fault)]
    /\ UNCHANGED <<AUTH_CFG, auth_middleware, backend, sse_sessions, queue, conn,
                   uuids, inflight, acked>>

\* test_auth_methods.py: config.REDIS_CFG["entraid_auth_method"] = ...
Configure(name, value) ==
    /\ backend.REDIS_CFG[name] # value
    /\ backend' = [backend EXCEPT !.REDIS_CFG[name] = value]
    /\ last' = NoExchange
    /\ UNCHANGED <<AUTH_CFG, auth_middleware, sse_sessions, queue, conn, uuids,
                   inflight, nposts, acked>>

\* test_auth_methods.py: RedisConnectionManager._instance = None
ResetInstance ==
    /\ backend.instance # NoInstance
    /\ backend' = [backend EXCEPT !.instance = NoInstance, !.constructed = 0]
    /\ last' = NoExchange
    /\ UNCHANGED <<AUTH_CFG, auth_middleware, sse_sessions, queue, conn, uuids,
                   inflight, nposts, acked>>

AuthMethods == {None, "", "service_principal", "managed_identity",
                "default_azure_credential", "ldap"}
RedisConfigs ==
    {RedisCfg(m, t, c, p, i) : m \in AuthMethods, t \in {None, "tenant"},
                               c \in {None, "client"}, p \in {None, "cert.pem"},
                               i \in {None, "identity"}}

ConnInit ==
    /\ AUTH_CFG = [method |-> "NO-AUTH"]
    /\ auth_middleware = get_auth_middleware(AUTH_CFG, "ok")
    /\ backend \in {Runtime(cfg) : cfg \in RedisConfigs}
    /\ sse_sessions = {} /\ queue = EmptyObject /\ conn = EmptyObject
    /\ uuids = 0 /\ inflight = EmptyObject /\ nposts = 0
    /\ last = NoExchange /\ acked = <<>>

ConnNext ==
    \/ \E d \in BOOLEAN, f \in Faults : GetConnection(d, f)
    \/ \E f \in Faults : CreateProvider(f)
    \/ \E m \in AuthMethods : Configure("entraid_auth_method", m)
    \/ ResetInstance

ConnSpec == ConnInit /\ [][ConnNext]_vars

\* ------------------------------------- list, string and stream tools
ListTools   == {"lpush", "rpush", "lpop", "rpop", "lrange", "llen"}
StringTools == {"set", "get"}
StreamTools == {"xadd", "xrange", "xdel"}
RedisTools  == ListTools \cup StringTools \cup StreamTools

\* The Redis commands a tool issues through run_redis_command, in order,
\* when none of them fails
\* (variant: the expiration is set before the write)
Commands_ExpireFirst(tool, expire) ==
    IF tool \in {"lpush", "rpush", "xadd"}
    THEN (IF expire > 0 THEN <<"expire">> ELSE <<>>) \o <<tool>>
    ELSE IF tool = "set"
    THEN IF expire > 0 THEN <<"setex">> ELSE <<"set">>
    ELSE <<tool>>
Commands(tool, expire) ==
    IF tool \in {"lpush", "rpush", "xadd"}
    THEN <<tool>> \o (IF expire > 0 THEN <<"expire">> ELSE <<>>)
    ELSE IF tool = "set"
    THEN IF expire > 0 THEN <<"setex">> ELSE <<"set">>
    ELSE <<tool>>

\* What a command that succeeds does to the key (a pop or xdel leaves a
\* list or stream behind; reads change nothing)
Execute(key, command, expire) ==
    IF command \in {"lpush", "rpush", "xadd"} THEN [key EXCEPT !.exists = TRUE]
    ELSE IF command = "set" THEN [exists |-> TRUE, ttl |-> NoExpiry]
    ELSE IF command = "setex" THEN [exists |-> TRUE, ttl |-> expire]
    ELSE IF command = "expire"
    THEN IF key.exists THEN [key EXCEPT !.ttl = expire] ELSE key
    ELSE key

\* redis.exceptions: ConnectionError and the rest derive from RedisError
RedisErrors == {"RedisError", "ConnectionError"}

\* The except clauses of a tool: "except RedisError", and in get also
\* "except Exception"
\* (variant: the tools catch nothing)
Catches_Nothing(tool, error) == FALSE
Catches(tool, error) == error.cls \in RedisErrors \/ tool = "get"

\* The string a tool returns from an except clause
ErrorText(tool, error) ==
    IF error.cls \in RedisErrors
    THEN CASE tool \in {"lpush", "rpush"} -> "Error pushing value to list"
           [] tool \in {"lpop", "rpop"}   -> "Error popping value from list"
           [] tool = "lrange" -> "Error retrieving values from list"
           [] tool = "llen"   -> "Error retrieving length of list"
           [] tool = "set"    -> "Error setting key"
           [] tool = "get"    -> "Error retrieving key"
           [] tool = "xadd"   -> "Error adding to stream"
           [] tool = "xrange" -> "Error reading from stream"
           [] OTHER           -> "Error deleting from stream"
    ELSE "Unexpected error retrieving key"

\* What the tool does with an exception raised inside its try block
Except(tool, error) ==
    IF Catches(tool, error) THEN Returns(ErrorText(tool, error))
    ELSE Raises(error)

\* call_tool: mcp.call_tool converts the string a tool returned into a
\* content list; an exception of the tool is logged and raised again
call_tool(outcome) ==
    IF outcome.kind = "raise" THEN Raise
    ELSE ListValue(<<TextContent(outcome.value)>>)

Pending == [kind |-> "pending"]
ToolMessage == Member("method", "tools/call") @@ Member("id", "7")

\* A tools/call reaches the tool: it runs to its first await, through
\* r = RedisConnectionManager.get_connection()
ToolCall(tool, expire, fault) ==
    /\ nposts < MaxRequests
    /\ Cardinality(DOMAIN backend.running) < 2
    /\ nposts' = nposts + 1
    /\ LET r == RedisConnectionManager(backend, TRUE, fault)
           frame == [tool |-> tool, expire |-> expire, issued |-> <<>>,
                     todo |-> Commands(tool, expire),
                     outcome |-> IF r.outcome.kind = "raise"
                                 THEN Except(tool, r.outcome.error)
                                 ELSE Pending]
       IN  backend' = [r.b EXCEPT !.running = (nposts + 1 :> frame) @@ @]
    /\ last' = NoExchange
    /\ UNCHANGED <<AUTH_CFG, auth_middleware, sse_sessions, queue, conn, uuids,
                   inflight, acked>>

\* The next "await run_redis_command(...)" of a running tool finishes: the
\* command took effect, or it raised a RedisError
ToolCommand(n, result) ==
    /\ n \in DOMAIN backend.running
    /\ LET frame == backend.running[n] IN
       /\ frame.outcome = Pending
       /\ LET command == Head(frame.todo)
              issued == Append(frame.issued, [cmd |-> command, result |-> result])
          IN
          IF result = "ok"
          THEN backend' = [backend EXCEPT
                  !.redis = Execute(@, command, frame.expire),
                  !.running[n] = [frame EXCEPT
                      !.issued = issued, !.todo = Tail(@),
                      !.outcome = IF Len(frame.todo) = 1
                                  THEN Returns("Success") ELSE Pending]]
          ELSE backend' = [backend EXCEPT
                  !.running[n] = [frame EXCEPT
                      !.issued = issued,
                      !.outcome = Except(frame.tool, [cls |-> result,
                                                      message |-> command])]]
    /\ last' = NoExchange
    /\ UNCHANGED <<AUTH_CFG, auth_middleware, sse_sessions, queue, conn, uuids,
                   inflight, nposts, acked>>

\* The tool returned or raised: the dispatcher builds the reply
ToolReturn(n) ==
    /\ n \in DOMAIN backend.running
    /\ LET frame == backend.running[n] IN
       /\ frame.outcome # Pending
       /\ last' = [verb |-> "call_tool", tool |-> frame.tool,
                   expire |-> frame.expire, issued |-> frame.issued,
                   outcome |-> frame.outcome,
                   reply |-> ResolveCall(ToolMessage, call_tool(frame.outcome))]
       /\ backend' = [backend EXCEPT !.running =
                         [m \in DOMAIN @ \ {n} |-> @[m]]]
    /\ UNCHANGED <<AUTH_CFG, auth_middleware, sse_sessions, queue, conn, uuids,
                   inflight, nposts, acked>>

\* The expire / expiration argument, for the tools that take one
Expirations(tool) ==
    IF tool \in {"lpush", "rpush", "xadd", "set"} THEN {-1, 0, 60} ELSE {0}
ToolConfigs == {RedisCfg(None, None, None, None, None),
                RedisCfg("ldap", None, None, None, None)}
ToolInit ==
    /\ AUTH_CFG = [method |-> "NO-AUTH"]
    /\ auth_middleware = get_auth_middleware(AUTH_CFG, "ok")
    /\ backend \in {Runtime(cfg) : cfg \in ToolConfigs}
    /\ sse_sessions = {} /\ queue = EmptyObject /\ conn = EmptyObject
    /\ uuids = 0 /\ inflight = EmptyObject /\ nposts = 0
    /\ last = NoExchange /\ acked = <<>>

ToolNext ==
    \/ \E t \in RedisTools, f \in {"none", "redis_class"} :
          \E e \in Expirations(t) : ToolCall(t, e, f)
    \/ \E n \in DOMAIN backend.running, r \in {"ok", "RedisError"} :
          ToolCommand(n, r)
    \/ \E n \in DOMAIN backend.running : ToolReturn(n)

ToolSpec == ToolInit /\ [][ToolNext]_vars

\* ----------------------------------------------- semantic cache tools
\* _get_or_create_cache(cache_name, distance_threshold, ttl): the cache
\* object, made with this ttl when the key is new (ttl=None is NoExpiry)
get_or_create(b, cache_name, distance_threshold, ttl) ==
    LET cache_key == <<cache_name, distance_threshold>> IN
    IF cache_key \in DOMAIN b.cache_instances
    THEN [b |-> b, cache |-> b.cache_instances[cache_key]]
    ELSE LET r == RedisConnectionManager(b, TRUE, "none")
             cache == [name |-> cache_name,
                       distance_threshold |-> distance_threshold, ttl |-> ttl]
         IN  [b |-> [r.b EXCEPT !.cache_instances = (cache_key :> cache) @@ @],
              cache |-> cache]

\* SemanticCache.store(prompt=..., response=..., metadata=...): no ttl is
\* passed, so the entry gets the ttl the cache object was made with
EntryTtl(cache, ttl) == cache.ttl

\* semantic_cache_store(cache_name, prompt, response, metadata,
\* distance_threshold, ttl), with the outcome of cache.store
CacheStore(cache_name, distance_threshold, ttl, result) ==
    /\ nposts < MaxRequests
    /\ nposts' = nposts + 1
    /\ LET r == get_or_create(backend, cache_name, distance_threshold,
                              IF ttl > 0 THEN ttl ELSE NoExpiry)
       IN
       /\ backend' = r.b
       /\ last' = [verb |-> "semantic_cache_store", cache_name |-> cache_name,
                   distance_threshold |-> distance_threshold, ttl |-> ttl,
                   stored |-> (result = "ok"),
                   applied |-> EntryTtl(r.cache, IF ttl > 0 THEN ttl ELSE NoExpiry),
                   outcome |-> IF result = "ok"
                               THEN Returns([text |-> "Successfully stored in cache",
                                             ttl |-> IF ttl > 0 THEN ttl
                                                     ELSE NoExpiry])
                               ELSE Returns([text |-> "Redis error storing in cache",
                                             ttl |-> NoExpiry])]
    /\ UNCHANGED <<AUTH_CFG, auth_middleware, sse_sessions, queue, conn, uuids,
                   inflight, acked>>

\* semantic_cache_search, semantic_cache_clear and semantic_cache_info:
\* each looks the cache up with ttl None before its command
CacheUse(tool, cache_name, distance_threshold) ==
    /\ nposts < MaxRequests
    /\ nposts' = nposts + 1
    /\ LET r == get_or_create(backend, cache_name, distance_threshold, NoExpiry) IN
       /\ backend' = r.b
       /\ last' = [verb |-> tool, cache_name |-> cache_name,
                   distance_threshold |-> distance_threshold,
                   ttl |-> NoExpiry, stored |-> FALSE, applied |-> NoExpiry,
                   outcome |-> Returns([text |-> tool, ttl |-> r.cache.ttl])]
    /\ UNCHANGED <<AUTH_CFG, auth_middleware, sse_sessions, queue, conn, uuids,
                   inflight, acked>>

CacheNames == {"products", "qa-cache"}
Thresholds == {"0.4", "0.2"}
Ttls == {0, 60, 3600}
CacheInit ==
    /\ AUTH_CFG = [method |-> "NO-AUTH"]
    /\ auth_middleware = get_auth_middleware(AUTH_CFG, "ok")
    /\ backend = Runtime(RedisCfg(None, None, None, None, None))
    /\ sse_sessions = {} /\ queue = EmptyObject /\ conn = EmptyObject
    /\ uuids = 0 /\ inflight = EmptyObject /\ nposts = 0
    /\ last = NoExchange /\ acked = <<>>

CacheNext ==
    \/ \E c \in CacheNames, d \in Thresholds, t \in Ttls,
          r \in {"ok", "RedisError"} : CacheStore(c, d, t, r)
    \/ \E tool \in {"semantic_cache_search", "semantic_cache_clear",
                    "semantic_cache_info"},
          c \in CacheNames, d \in Thresholds : CacheUse(tool, c, d)

CacheSpec == CacheInit /\ [][CacheNext]_vars

\* tools/list requests, on the stream of a session and without one, against
\* a catalog query that answers or raises
ListBodies == {JsonBody(Member("method", "tools/list") @@ Member("id", i)) :
                  i \in {"7", "8"}}
ListNext ==
    \/ SseConnect(<<>>)
    \/ \E s \in Created : Announce(s)
    \/ \E s \in Created : Disconnect(s)
    \/ \E s \in SessionIds, b \in ListBodies : PostMessage(<<>>, s, b)
    \/ \E n \in DOMAIN inflight, o \in ListOutcomes : ListReturns(n, o)

ListSpec == Init /\ [][ListNext]_vars

\* Which POSTs reach the backend: each kind of body, with and without a
\* key, under each configuration, against sessions that come and go
CallConfigs == {c \in BridgeConfigs : c.method \in {"NO-AUTH", "API-KEY"}}
CallHeaders == {<<>>, ("X-API-Key" :> "k1")}
CallBodies ==
    {[kind |-> "empty"], [kind |-> "badjson"], ArrayBody}
    \cup {JsonBody(Member("method", m) @@ i) :
             m \in {"initialize", "tools/list", "tools/call", "bogus/method"},
             i \in {EmptyObject, Member("id", "7")}}
    \cup {JsonBody(Member("method", "tools/call") @@ Member("id", None)),
          JsonBody(Member("method", "tools/call") @@ Member("id", "7")
                   @@ Member("params", ParamsArray))}

CallNext ==
    \/ \E h \in CallHeaders : SseConnect(h)
    \/ \E s \in Created : Announce(s)
    \/ \E s \in Created : Disconnect(s)
    \/ /\ DOMAIN inflight = {}         \* requests are sent one at a time
       /\ \E h \in CallHeaders, s \in SessionIds, b \in CallBodies :
             PostMessage(h, s, b)
    \/ \E n \in DOMAIN inflight : PostResume(n)

CallSpec == InitWith(CallConfigs) /\ [][CallNext]_vars

\* Streams are driven whenever they can move: the event loop resumes a
\* generator whose queue holds a message, and the response sends each event
Uuids == {UuidPool[i] : i \in 1..MaxRequests}

\* The bridge restricted to tools/call Requests that name a registered
\* session; keepalives, which leave the queue alone, are left to Spec
StreamNext ==
    \/ SseConnect(<<>>)
    \/ \E s \in Created : Announce(s)
    \/ \E s \in Created : StreamMessage(s)
    \/ \E s \in Created : Disconnect(s)
    \/ \E s \in sse_sessions :
          PostMessage(<<>>, s, JsonBody(Member("method", "tools/call")
                                        @@ Member("id", "7")))
    \/ \E n \in DOMAIN inflight : PostResume(n)

FairSpec == /\ Init /\ [][StreamNext]_vars
            /\ \A s \in Uuids : WF_vars(Announce(s)) /\ WF_vars(StreamMessage(s))

\* ------------------------------------------------------------- properties
IsPost(ex)    == ex.verb = "POST"
IsObject(b)   == b.kind = "json" /\ b.type = "object"
HasIdMember(b) == IsObject(b) /\ "id" \in DOMAIN b.message
HasId(b)      == HasIdMember(b) /\ b.message["id"] # None
Named(ex)     == ex.sessionId # None
\* the handler resolves a reply for this body (it reaches line 303)
ResolvesReply(b) ==
    /\ HasId(b)
    /\ Get(b.message, "method", None) = "tools/call"
          => Get(b.message, "params", EmptyDict).type = "object"

SeqMap(f(_), q) == [i \in 1..Len(q) |-> f(q[i])]
ReqOf(x) == x.req
IsMessageEvent(e) == "event" \in DOMAIN e /\ e.event = "message"
OnSession(s, a) == a.sid = s

\* request numbers of the message events sent on the stream of s, in order
EmittedReqs(s) == SeqMap(ReqOf, SelectSeq(conn[s].out, IsMessageEvent))
\* request numbers of the replies put into the queue of s, in order
EnqueuedReqs(s) == SeqMap(ReqOf, SelectSeq(acked, LAMBDA a : OnSession(s, a)))
QueuedReqs(s) == SeqMap(ReqOf, queue[s])
Count(q, x) == Cardinality({i \in 1..Len(q) : q[i] = x})
IsPrefix(a, b) == Len(a) <= Len(b) /\ SubSeq(b, 1, Len(a)) = a

\* C1: a POST carrying a Request whose sessionId names no session of the
\* registry is answered 404 with the JSON diagnostic, never 200
C1_UnknownSession404 ==
    (IsPost(last) /\ HasId(last.body) /\ Named(last)
        /\ last.sessionId \notin sse_sessions)
    => (last.status = 404 /\ last.response.kind = "json")

\* C2: with the bearer checker installed, a request to a path other than
\* /health without a valid "Bearer <token>" header is answered 401 with code
\* -32001 and reaches neither the dispatcher nor the SSE handler
BadBearer(headers) ==
    LET parts == Get(headers, "Authorization", <<>>) IN
    \/ Len(parts) # 2
    \/ Lower(parts[1]) # "bearer"
    \/ parts[2] # TokValid
C2_BearerRejects ==
    auth_middleware.cls = "BearerAuthMiddleware" =>
        /\ (last.verb # "-" /\ last.path # "/health" /\ BadBearer(last.headers))
             => (last.status = 401 /\ last.response.json.error.code = -32001)
        /\ \A n \in DOMAIN inflight : ~BadBearer(inflight[n].rq.headers)

\* C3: a Request whose session is in the registry when its reply is delivered
\* is answered 202 with an empty body, and the reply is appended to the queue
\* of that session and of no other
C3_LiveSessionEnqueues ==
    [][ (IsPost(last') /\ ResolvesReply(last'.body) /\ Named(last')
            /\ last'.sessionId \in sse_sessions')
        => /\ last'.status = 202
           /\ last'.response = EmptyBody
           /\ LET s == last'.sessionId IN
              /\ Len(queue'[s]) = Len(queue[s]) + 1
              /\ SubSeq(queue'[s], 1, Len(queue[s])) = queue[s]
              /\ queue'[s][Len(queue'[s])].req = last'.req
              /\ queue'[s][Len(queue'[s])].response.id = last'.body.message["id"]
              /\ \A t \in DOMAIN queue \ {s} : queue'[t] = queue[t] ]_vars
C3_Witness ==
    /\ IsPost(last) /\ last.status = 202
    /\ Cardinality(sse_sessions) >= 2

\* C4 (as stated): every reply acknowledged with 202 appears exactly once on
\* the stream of its session, never on another, and is never left undelivered
\* (once its session has left the registry it has been sent)
C4_ExactlyOnce ==
    \A i \in 1..Len(acked) :
        LET a == acked[i] IN
        /\ Count(EmittedReqs(a.sid), a.req) <= 1
        /\ \A t \in DOMAIN conn \ {a.sid} : Count(EmittedReqs(t), a.req) = 0
        /\ a.sid \notin sse_sessions => Count(EmittedReqs(a.sid), a.req) = 1

\* C4 (amended): every reply acknowledged with 202 is sent at most once and
\* only on the stream of its session; while that connection is open the reply
\* is either still in the session's queue or has been sent; and it is
\* eventually sent unless the connection ends first
C4_Pending(s, n) ==
    /\ \E i \in 1..Len(acked) : acked[i] = [req |-> n, sid |-> s]
    /\ Count(EmittedReqs(s), n) = 0
C4_Settled(s, n) ==
    s \in DOMAIN conn /\ (Count(EmittedReqs(s), n) = 1 \/ conn[s].pc = "closed")
C4_AtMostOnce ==
    \A i \in 1..Len(acked) :
        LET a == acked[i] IN
        /\ Count(EmittedReqs(a.sid), a.req) <= 1
        /\ \A t \in DOMAIN conn \ {a.sid} : Count(EmittedReqs(t), a.req) = 0
        /\ conn[a.sid].pc # "closed"
             => Count(EmittedReqs(a.sid), a.req) + Count(QueuedReqs(a.sid), a.req) = 1
C4_OnceUnlessClosed ==
    /\ []C4_AtMostOnce
    /\ \A s \in Uuids : \A n \in 1..MaxRequests :
         C4_Pending(s, n) ~> C4_Settled(s, n)
C4_Witness ==
    \E i \in 1..Len(acked) :
        /\ Count(EmittedReqs(acked[i].sid), acked[i].req) = 1
        /\ conn[acked[i].sid].pc = "streaming"

\* C5: the message events of a session are sent in the order in which the
\* replies were put into its queue
C5_Fifo == \A s \in DOMAIN conn : IsPrefix(EmittedReqs(s), EnqueuedReqs(s))
C5_Witness ==
    \E s \in DOMAIN conn : Len(EmittedReqs(s)) >= 2 /\ conn[s].keepalives >= 1

\* C6: no session id remains in the registry after its connection is closed
C6_ClosedIsRemoved ==
    \A s \in DOMAIN conn : conn[s].pc = "closed" => s \notin sse_sessions

\* C7: a message without an id member is answered 204 with an empty body,
\* whatever its method and sessionId; it enqueues nothing, calls no backend
\* operation and never becomes a suspended request
C7_NotificationNoReply ==
    [][ /\ (IsPost(last') /\ IsObject(last'.body)
              /\ "id" \notin DOMAIN last'.body.message)
           => /\ last'.status = 204
              /\ last'.response = EmptyBody
              /\ last'.called = <<>>
              /\ queue' = queue
              /\ acked' = acked
        /\ \A n \in DOMAIN inflight' : HasIdMember(inflight'[n].rq.body) ]_vars
C7_Witness ==
    /\ IsPost(last) /\ last.status = 204
    /\ IsObject(last.body)
    /\ DOMAIN last.body.message = {}
    /\ last.sessionId \in sse_sessions

\* C8: a message with an id member is handled as a Request, not as a
\* Notification, and the reply it gets carries that id, null included
C8_IdEchoed ==
    (IsPost(last) /\ HasIdMember(last.body))
    => /\ last.status # 204
       /\ last.response.kind = "jsonrpc"
            => last.response.json.id = last.body.message["id"]

\* C9: when the session of a suspended Request was in the registry as the
\* POST arrived and has left it when the handler resumes, the POST is
\* answered 404 with the diagnostic, nothing is enqueued, the handler ends,
\* and the registry is left as it is
C9_DestroyedMeanwhile ==
    [][ \A n \in DOMAIN inflight :
          LET h == inflight[n] IN
          ( /\ h.use_sse
            /\ h.rq.sessionId \notin sse_sessions
            /\ (n \notin DOMAIN inflight' \/ inflight'[n] # h) )
          => /\ n \notin DOMAIN inflight'
             /\ last'.req = n
             /\ last'.status = 404
             /\ last'.response = Diagnostic("SSE session not found or expired")
             /\ queue' = queue
             /\ acked' = acked
             /\ sse_sessions' = sse_sessions ]_vars
C9_Witness ==
    /\ IsPost(last) /\ last.status = 404
    /\ last.called = <<"callTool">>
    /\ last.sessionId \notin sse_sessions

\* C10: a session id that has left the registry never returns to it, its
\* queue receives nothing more, and no handler is ever left waiting in put
C10_NeverRevived ==
    [][ /\ \A s \in Created \ sse_sessions :
              s \notin sse_sessions' /\ queue'[s] = queue[s]
        /\ \A n \in DOMAIN inflight' : inflight'[n].on # "put" ]_vars
C10_Witness ==
    /\ IsPost(last) /\ last.status = 404
    /\ last.sessionId \in Created \ sse_sessions
    /\ conn[last.sessionId].pc = "closed"

\* C11: with the static-key checker active, a request to a path other than
\* /health passes to the application if and only if its X-API-Key header
\* equals a configured key; every other request (header absent, empty or
\* equal to no key) is answered 401 with code -32001 and changes nothing
StaticKeyActive ==
    auth_middleware.cls = "APIKeyMiddleware" /\ auth_middleware.api_keys # {}
HasValidKey(headers) ==
    "X-API-Key" \in DOMAIN headers
        /\ headers["X-API-Key"] \in auth_middleware.api_keys
C12_HealthExempt ==
    (last.verb = "GET" /\ last.path = "/health")
    => (last.status = 200 /\ last.response = [kind |-> "text", text |-> "OK"])
C12_Witness ==
    /\ StaticKeyActive
    /\ last.path = "/health" /\ last.status = 200
    /\ last.headers = ("X-API-Key" :> "wrong")

\* C19: get_auth_middleware maps every configuration to exactly one outcome:
\* the static-key checker iff the method is API-KEY (in any case) with a
\* non-empty key set, the bearer checker iff the method is OAUTH with tenant
\* id and client id present and the verifier is constructed, and no checker
\* in every other case
MethodIs(c, names) == "method" \in DOMAIN c /\ c["method"] \in names
Present(c, name) == name \in DOMAIN c /\ c[name] \notin {None, ""}
StaticKeySelected(c) ==
    /\ MethodIs(c, {"API-KEY", "api-key", "Api-Key"})
    /\ "api_keys" \in DOMAIN c /\ c["api_keys"] # {}
BearerSelected(c, construction) ==
    /\ MethodIs(c, {"OAUTH", "oauth"})
    /\ Present(c, "oauth_tenant_id") /\ Present(c, "oauth_client_id")
    /\ construction = "ok"
C19_OneOutcome ==
    [][ \A k \in Constructions : CreateApp(k) =>
          LET cls == auth_middleware'.cls IN
          /\ cls = "APIKeyMiddleware" <=> StaticKeySelected(AUTH_CFG)
          /\ cls = "APIKeyMiddleware"
                => auth_middleware'.api_keys = AUTH_CFG["api_keys"]
          /\ cls = "BearerAuthMiddleware" <=> BearerSelected(AUTH_CFG, k)
          /\ cls = "none" <=> (~StaticKeySelected(AUTH_CFG)
                                /\ ~BearerSelected(AUTH_CFG, k)) ]_vars

\* C20: for every configuration, selecting the strategy and creating the
\* application completes without raising
C20_AlwaysStarts == auth_middleware.cls # "raised"

\* a message with an id member: a Request
IsRequest(b) == HasIdMember(b)
MethodOf(b) == Get(b.message, "method", None)
IdOf(b) == IF IsObject(b) THEN Get(b.message, "id", None) ELSE None

\* C13: a Request that carries no sessionId is answered 200 with the JSON-RPC
\* envelope (result or error) carrying its id, and no queue is changed
C13_DirectReply ==
    [][ (IsPost(last') /\ IsRequest(last'.body) /\ last'.sessionId = None)
        => /\ last'.status = 200
           /\ last'.response.kind = "jsonrpc"
           /\ last'.response.json.id = IdOf(last'.body)
           /\ queue' = queue
           /\ acked' = acked ]_vars

\* C14: for every body that parses as JSON the handler returns a response of
\* its own: no exception leaves it, and a failure while computing the reply
\* (params that is not an object included) is answered 500 with code -32603
\* and the id of the message, null when it has none
FailsComputing(b) ==
    \/ ~IsObject(b)
    \/ /\ Get(b.message, "id", None) # None
       /\ MethodOf(b) = "tools/call"
       /\ Get(b.message, "params", EmptyDict).type # "object"
C14_NoEscape ==
    (IsPost(last) /\ last.body.kind = "json")
    => /\ last.response.kind # "text"
       /\ FailsComputing(last.body) => last.status = 500
       /\ last.status = 500
            => last.response =
                 JsonRpc(ErrorReply(IdOf(last.body), -32603, "Internal error"))

\* C15 (as stated): when the backend raises during a tools/call the error
\* reply -32000 with the request's id is delivered with 200 or 202; the
\* failure never gives a 4xx or 5xx status
BackendRaises(n) ==
    /\ inflight[n].on = "callTool"
    /\ Deliver(inflight[n].rq, inflight[n].use_sse,
               Resolve("callTool", inflight[n].rq.body.message, "raise"),
               inflight[n].called)
ToolError(n) ==
    ErrorReply(inflight[n].rq.body.message["id"], -32000, "Tool execution failed")
SentDirect(n) ==
    /\ last'.status = 200
    /\ last'.response = JsonRpc(ToolError(n))
    /\ queue' = queue
SentOnStream(n) ==
    LET s == inflight[n].rq.sessionId IN
    /\ last'.status = 202
    /\ last'.response = EmptyBody
    /\ queue' = [queue EXCEPT ![s] = Append(@, [response |-> ToolError(n),
                                                req |-> n])]
C15_BackendErrorInBand ==
    [][ \A n \in DOMAIN inflight : BackendRaises(n) =>
          /\ n \notin DOMAIN inflight'
          /\ last'.req = n
          /\ SentDirect(n) \/ SentOnStream(n) ]_vars

\* C15 (amended): when the backend raises during a tools/call the handler
\* ends with the error reply -32000 carrying the request's id: in the body
\* with 200 when the request named no registered session on arrival, in the
\* queue of its session with 202 when that session is still registered, and
\* with 404 and no reply only when that session was destroyed during the
\* call; never with a 5xx status
C15_InBandUnlessDestroyed ==
    [][ \A n \in DOMAIN inflight : BackendRaises(n) =>
          LET h == inflight[n] IN
          /\ n \notin DOMAIN inflight'
          /\ last'.req = n
          /\ IF ~h.use_sse THEN SentDirect(n)
             ELSE IF h.rq.sessionId \in sse_sessions THEN SentOnStream(n)
             ELSE /\ last'.status = 404
                  /\ queue' = queue ]_vars
C15_Witness ==
    /\ IsPost(last) /\ last.status = 200
    /\ last.response.kind = "jsonrpc"
    /\ "error" \in DOMAIN last.response.json
    /\ last.response.json.error.code = -32000

\* C16: a non-empty body that is not well-formed JSON text, bytes that are
\* not UTF-8 included, is answered 400 with code -32700 and id null; no
\* backend call is made and no queue is changed
C16_ParseError ==
    [][ (IsPost(last') /\ last'.body.kind \in {"badjson", "badutf8"})
        => /\ last'.status = 400
           /\ last'.response =
                 JsonRpc(ErrorReply(None, -32700, "Parse error: Invalid JSON"))
           /\ last'.called = <<>>
           /\ UNCHANGED <<queue, acked, inflight>> ]_vars

\* C17: a Request whose method is none of initialize, tools/list and
\* tools/call (a Request without method included) gets the error -32601 with
\* its id, in the body with 200 or in the queue of its live session with
\* 202, and no backend call is made
C17_MethodNotFound ==
    [][ (IsPost(last') /\ IsRequest(last'.body)
            /\ MethodOf(last'.body) \notin {"initialize", "tools/list", "tools/call"})
        => LET reply == ErrorReply(IdOf(last'.body), -32601, "Method not found")
               s == last'.sessionId
           IN  /\ last'.called = <<>>
               /\ IF s \in sse_sessions
                  THEN /\ last'.status = 202
                       /\ queue' = [queue EXCEPT ![s] =
                              Append(@, [response |-> reply, req |-> last'.req])]
                  ELSE /\ last'.status = 200
                       /\ last'.response = JsonRpc(reply)
                       /\ queue' = queue ]_vars

\* C18: a POST with an empty body is answered 400 with a body that is no
\* JSON-RPC envelope (no jsonrpc, id or error.code member), with or without
\* a sessionId, and no queue is changed
C18_EmptyBody ==
    [][ (IsPost(last') /\ last'.body.kind = "empty")
        => /\ last'.status = 400
           /\ last'.response.kind = "json"
           /\ DOMAIN last'.response.json = {"error"}
           /\ last'.response.json.error = "Empty request body"
           /\ last'.called = <<>>
           /\ UNCHANGED <<queue, acked, inflight>> ]_vars
C18_Witness ==
    /\ IsPost(last) /\ last.body.kind = "empty" /\ last.status = 400
    /\ last.sessionId \in sse_sessions

\* C26: on every SSE connection the first event is the session event with
\* the session id, the second the endpoint event with
\* "/message?sessionId=<id>", and only message events and keepalives follow;
\* the connection only moves forward through Announcing, Streaming, Closed,
\* streams only after both announcements, and keeps its events and its id
Rank(pc) == CASE pc \in {"created", "session"} -> 0
              [] pc = "streaming"              -> 1
              [] pc = "closed"                 -> 2
IsKeepalive(e) == "comment" \in DOMAIN e /\ e.comment = "keepalive"
C26_AnnounceOrder ==
    \A s \in DOMAIN conn :
        LET out == conn[s].out IN
        /\ Len(out) >= 1 => out[1] = [event |-> "session", sid |-> s]
        /\ Len(out) >= 2 => out[2] = [event |-> "endpoint",
                                      url |-> <<"/message?sessionId=", s>>]
        /\ \A i \in 3..Len(out) : IsMessageEvent(out[i]) \/ IsKeepalive(out[i])
        /\ conn[s].pc = "streaming" => Len(out) >= 2
        /\ conn[s].pc = "created" => out = <<>>
        /\ conn[s].pc = "session" => Len(out) = 1
C26_Forward ==
    \A s \in DOMAIN conn :
        /\ s \in DOMAIN conn'
        /\ Rank(conn[s].pc) <= Rank(conn'[s].pc)
        /\ IsPrefix(conn[s].out, conn'[s].out)
        /\ conn[s].pc = "closed" => conn'[s] = conn[s]
C26_SessionThenEndpoint == []C26_AnnounceOrder /\ [][C26_Forward]_vars
C26_Witness ==
    \E s \in DOMAIN conn :
        /\ conn[s].pc = "closed"
        /\ Len(conn[s].out) >= 4
        /\ \E i \in 3..Len(conn[s].out) : IsMessageEvent(conn[s].out[i])
        /\ \E i \in 3..Len(conn[s].out) : IsKeepalive(conn[s].out[i])

\* C27: in the Streaming state every iteration emits exactly one event: the
\* message event of the reply it dequeued, or a keepalive when the wait
\* timed out; a timeout takes nothing from the queue and leaves the stream
\* open; the loop ends only by cancellation or by an error
C27_Iteration(s) ==
    LET c == conn[s]  d == conn'[s] IN
    (c.pc = "streaming" /\ d # c) =>
        \/ \* a reply was dequeued and emitted
           /\ queue[s] # <<>>
           /\ queue'[s] = Tail(queue[s])
           /\ d.out = Append(c.out, [event |-> "message",
                                      data |-> Head(queue[s]).response,
                                      req |-> Head(queue[s]).req])
           /\ d.pc = "streaming"
        \/ \* the wait timed out
           /\ queue'[s] = queue[s]
           /\ d.out = Append(c.out, [comment |-> "keepalive"])
           /\ d.pc = "streaming"
           /\ s \in sse_sessions <=> s \in sse_sessions'
        \/ \* cancellation
           /\ d.pc = "closed" /\ d.out = c.out
           /\ queue'[s] = queue[s]
        \/ \* error: json.dumps raised on the dequeued reply
           /\ d.pc = "closed" /\ d.out = c.out
           /\ queue[s] # <<>> /\ ~Serializable(Head(queue[s]).response)
           /\ queue'[s] = Tail(queue[s])
C27_OneEventPerIteration ==
    [][ \A s \in DOMAIN conn :
          /\ C27_Iteration(s)
          /\ (conn[s].pc = "streaming" /\ conn'[s] = conn[s])
                => IsPrefix(queue[s], queue'[s]) ]_vars
C27_Witness ==
    \E s \in DOMAIN conn :
        /\ conn[s].pc = "streaming"
        /\ \E i \in 3..Len(conn[s].out) :
              /\ IsKeepalive(conn[s].out[i])
              /\ i < Len(conn[s].out)
              /\ IsMessageEvent(conn[s].out[i + 1])

\* C28: under every interleaving of connects, disconnects and POSTs, a
\* connect installs an id never used before with an empty queue of its own;
\* creating or destroying a session leaves every other session's entry and
\* queue as they are; a reply is emitted only on the stream of the session
\* the POST that produced it named
C28_Isolation ==
    [][ /\ \A s \in sse_sessions' \ sse_sessions :
              /\ s \notin Created
              /\ s \notin DOMAIN queue
              /\ queue'[s] = <<>>
              /\ sse_sessions' = sse_sessions \cup {s}
              /\ \A t \in DOMAIN queue : queue'[t] = queue[t]
        /\ \A s \in sse_sessions \ sse_sessions' :
              /\ sse_sessions' = sse_sessions \ {s}
              /\ \A t \in DOMAIN queue \ {s} : queue'[t] = queue[t]
        /\ acked' # acked =>
              /\ acked' = Append(acked, [req |-> last'.req,
                                         sid |-> last'.sessionId])
        /\ \A s \in DOMAIN conn' : \A i \in 1..Len(conn'[s].out) :
              IsMessageEvent(conn'[s].out[i]) =>
                 \E j \in 1..Len(acked') :
                    acked'[j] = [req |-> conn'[s].out[i].req, sid |-> s] ]_vars
C28_Witness ==
    \E s, t \in DOMAIN conn :
        /\ s # t
        /\ conn[s].pc = "closed" /\ s \notin sse_sessions
        /\ t \in sse_sessions
        /\ Len(EmittedReqs(t)) >= 1

\* C30: destroying a session that is absent from the registry leaves the
\* registry as it is, so that destroying twice is destroying once
DestroyTargets == Uuids \cup {Ghost}
C30_DestroyIdempotent ==
    \A s \in DestroyTargets :
        LET once == Destroy(sse_sessions, s) IN
        /\ Destroy(once, s) = once
        /\ s \notin sse_sessions => once = sse_sessions
        /\ once = sse_sessions \ {s}
C30_Witness ==
    \E s \in Created \ sse_sessions :
        /\ conn[s].pc = "closed"
        /\ Len(conn[s].out) >= 1
        /\ sse_sessions # {}

Verified == last.verb = "verify_token"
Verifier == auth_middleware.token_verifier
Granted == last.outcome.kind = "return" /\ last.outcome.value.cls = "AccessToken"
OtherwiseValid(token) == Decode(Verifier, token) = None

\* C22: for an otherwise valid token, with required scopes R non-empty and
\* granted scopes G, the token is accepted exactly when every r in R has a
\* g in G that is r, "User." + r, or ends with "." + r; it is accepted
\* whenever R is a subset of G, and always when R is empty
C22_Satisfies(g, r) ==
    \/ g = r
    \/ g = <<"User", ".">> \o r
    \/ \E k \in 1..Len(g) : SubSeq(g, k, Len(g)) = <<".">> \o r
C22_ScopeCheck ==
    (Verified /\ OtherwiseValid(last.token)) =>
        LET R == SetOf(Verifier.required_scopes)
            G == SetOf(GrantedScopes(last.token.claims))
        IN  /\ last.outcome.kind = "return"
            /\ R # {} => (Granted <=> \A r \in R : \E g \in G : C22_Satisfies(g, r))
            /\ R \subseteq G => Granted
            /\ R = {} => Granted
C22_Witness ==
    /\ Verified /\ OtherwiseValid(last.token)
    /\ Verifier.required_scopes = <<MCPRead, MCPWrite>>
    /\ SetOf(GrantedScopes(last.token.claims)) = {UserMCPRead, ApiMCPWrite}
    /\ Granted

\* C23: when the token carries scp, the granted scopes are the space-split
\* scp and the verdict is the one the token gets without its roles; roles
\* are the granted scopes only when scp is absent, and the list is empty
\* when both are absent
WithoutRoles(token) ==
    [token EXCEPT !.claims = [n \in DOMAIN @ \ {"roles"} |-> @[n]]]
PiecesOf(str) ==
    LET cuts == <<0>> \o SelectSeq([i \in 1..Len(str) |-> i],
                                   LAMBDA i : str[i] = " ")
                      \o <<Len(str) + 1>>
    IN  [i \in 1..(Len(cuts) - 1) |-> SubSeq(str, cuts[i] + 1, cuts[i + 1] - 1)]
C23_ScpFirst ==
    (Verified /\ OtherwiseValid(last.token)) =>
        LET claims == last.token.claims IN
        /\ "scp" \in DOMAIN claims =>
              /\ Granted => last.outcome.value.scopes = PiecesOf(claims["scp"])
              /\ Granted <=>
                    verify_token(Verifier, WithoutRoles(last.token)).value # NoGrant
        /\ ("scp" \notin DOMAIN claims /\ "roles" \in DOMAIN claims /\ Granted)
              => last.outcome.value.scopes = claims["roles"]
        /\ ("scp" \notin DOMAIN claims /\ "roles" \notin DOMAIN claims /\ Granted)
              => last.outcome.value.scopes = <<>>
C23_Witness ==
    /\ Verified /\ OtherwiseValid(last.token)
    /\ Verifier.required_scopes = <<MCPRead>>
    /\ "scp" \in DOMAIN last.token.claims
    /\ last.token.claims["scp"] = OtherScope
    /\ "roles" \in DOMAIN last.token.claims
    /\ last.token.claims["roles"] = <<MCPRead>>
    /\ last.outcome = Returns(NoGrant)

\* C24: a token valid in signature, expiry, issuer and scopes is accepted
\* when its audience is "api://<client-id>", equally when it is the bare
\* "<client-id>", and refused for every other audience
WithAudience(token, aud) ==
    [token EXCEPT !.claims = Member("aud", StringClaim(aud)) @@ @]
ValidButAudience(token) ==
    verify_token(Verifier, WithAudience(token, <<"api://", Verifier.client_id>>)).value
        # NoGrant
AudiencesOf(token) ==
    IF "aud" \notin DOMAIN token.claims THEN {}
    ELSE IF token.claims["aud"].type = "string" THEN {token.claims["aud"].value}
    ELSE {token.claims["aud"].items[i] : i \in 1..Len(token.claims["aud"].items)}
C24_BothAudiences ==
    (Verified /\ ValidButAudience(last.token)) =>
        (Granted <=> \E aud \in AudiencesOf(last.token) :
                        \/ aud = <<"api://", Verifier.client_id>>
                        \/ aud = <<Verifier.client_id>>)
C24_Witness ==
    /\ Verified /\ ValidButAudience(last.token)
    /\ AudiencesOf(last.token) = {<<"client">>}
    /\ Granted

\* C25: verify_token raises nothing and returns no grant for a token that
\* fails for any cause, and a request presenting such a token to a path
\* other than /health is answered 401 with code -32001 and one message
C25_Fails(token) ==
    \/ ~OtherwiseValid(token)
    \/ ~ScopesVerified(Verifier, GrantedScopes(token.claims))
C25_OneUnauthorized ==
    auth_middleware.cls = "BearerAuthMiddleware" =>
      /\ (Verified /\ C25_Fails(last.token)) => last.outcome = Returns(NoGrant)
      /\ (last.verb = "GET" /\ last.path # "/health"
            /\ C25_Fails(last.headers["Authorization"][2]))
           => /\ last.status = 401
              /\ last.response.json.error.code = -32001
              /\ last.response.json.error.message = "Invalid or expired access token"

\* C29: no blocking step of a tool call runs on the event-loop thread, so
\* while a tool call is doing blocking backend work the streams and the
\* other requests are not held up
C29_NothingBlocksLoop ==
    \A n \in DOMAIN inflight :
        (n \in DOMAIN backend.running /\ Len(backend.running[n]) > 0)
            => backend.running[n][1].thread = "executor"

\* C31: the content of a tools/call success reply follows the shape of the
\* result: a list gives one block per element in order, a non-empty tuple
\* one block per element of its first component, any other value (an empty
\* tuple, a tuple whose first component is None) one text block of the
\* stringified result; a model is dumped, a dict passed through, any other
\* element becomes a text block of its string form
C31_TextBlock(value) ==
    DictValue(("type" :> Text("text")) @@
              ("text" :> IF value.type = "str" THEN value
                         ELSE [type |-> "str", value |-> "str()", of |-> value]))
C31_Blocks(elements) ==
    [i \in 1..Len(elements) |->
        CASE elements[i].type = "model" ->
                DictValue([n \in {m \in DOMAIN elements[i].fields :
                                    elements[i].fields[m].type # "None"}
                             |-> elements[i].fields[n]])
          [] elements[i].type = "dict" -> elements[i]
          [] OTHER -> C31_TextBlock(elements[i])]
C31_Elements(value) ==
    IF value.type \in {"list", "tuple"} THEN value.items ELSE <<>>
C31_Expected(result) ==
    IF result.type = "list" THEN C31_Blocks(result.items)
    ELSE IF result.type = "tuple" /\ Len(result.items) > 0
            /\ result.items[1].type # "None"
         THEN C31_Blocks(C31_Elements(result.items[1]))
         ELSE <<C31_TextBlock(result)>>
C31_ContentByShape ==
    (last.verb = "POST" /\ Len(last.called) = 2 /\ last.status = 200
        /\ "result" \in DOMAIN last.response.json)
      => last.response.json.result.content = C31_Expected(last.called[2])
C31_Witness ==
    /\ last.verb = "POST" /\ Len(last.called) = 2 /\ last.status = 200
    /\ last.called[2].type = "tuple"
    /\ "result" \in DOMAIN last.response.json
    /\ last.response.json.result.content =
          <<C31_TextBlock(TupleValue(<<NoneValue,
                                       DictValue(Member("result", Text("raw")))>>))>>

\* C32: callTool is invoked at most once per POST, and only for a Request
\* with an id whose method is tools/call and which the checker let pass:
\* never for a notification, initialize, tools/list, an unknown method, an
\* empty or malformed body or a request answered 401; it is invoked before
\* the delivery path is taken, also when the POST is then answered 404
C32_MayCall(rq) ==
    /\ Middleware(auth_middleware, "/message", rq.headers).status # 401
    /\ rq.body.kind = "json" /\ rq.body.type = "object"
    /\ "id" \in DOMAIN rq.body.message /\ rq.body.message["id"] # None
    /\ "method" \in DOMAIN rq.body.message
    /\ rq.body.message["method"] = "tools/call"
C32_CalledRightly(rq, called) ==
    /\ Count(called, "callTool") <= 1
    /\ Count(called, "callTool") = 1 => C32_MayCall(rq)
C32_CallOnlyToolsCall ==
    /\ last.verb = "POST" =>
          /\ C32_CalledRightly(last, last.called)
          /\ last.status = 401 => last.called = <<>>
    /\ \A n \in DOMAIN inflight :
          C32_CalledRightly(inflight[n].rq, inflight[n].called)
C32_Witness ==
    /\ last.verb = "POST" /\ last.status = 404
    /\ last.called = <<"callTool">>
    /\ auth_middleware.cls = "APIKeyMiddleware"

\* C33: a request the active checker rejects is answered with the checker's
\* 401, the same for a live and an unknown sessionId, and leaves the bridge
\* as it was: no session installed, nothing enqueued, no backend call
C33_Verdict(ex) ==
    IF auth_middleware.cls = "APIKeyMiddleware"
    THEN APIKeyDispatch(auth_middleware, ex.path, ex.headers)
    ELSE IF auth_middleware.cls = "BearerAuthMiddleware"
    THEN BearerDispatch(auth_middleware, ex.path, ex.headers)
    ELSE Pass
C33_RejectedUnchanged ==
    [][ (last'.verb # "-" /\ C33_Verdict(last').status = 401) =>
          /\ last'.status = 401
          /\ last'.response = C33_Verdict(last').body
          /\ last'.called = <<>>
          /\ UNCHANGED <<sse_sessions, queue, conn, uuids, inflight, acked,
                         backend>> ]_vars
C33_Witness ==
    /\ auth_middleware.cls = "APIKeyMiddleware"
    /\ IsPost(last) /\ last.status = 401
    /\ last.sessionId \in sse_sessions
    /\ \E ex \in {[last EXCEPT !.sessionId = Ghost]} :
          C33_Verdict(ex) = C33_Verdict(last)

\* C34: a tools/list Request is never answered with a JSON-RPC error or a
\* 500; when the catalog query raised, the reply is the success result with
\* an empty tools list and the request's id, on the delivery path every
\* reply takes (200 in the body, 202 and the session's queue, or 404)
C34_Reply(ex) ==
    ToolsListReply(ex.body.message["id"],
                   IF ex.called[2] = "raise" THEN <<>> ELSE <<"tool">>)
C34_ListNeverFails ==
    (IsPost(last) /\ Len(last.called) = 2 /\ last.called[1] = "listTools") =>
        /\ last.status \in {200, 202, 404}
        /\ last.status = 200 =>
              /\ last.response = JsonRpc(C34_Reply(last))
              /\ ~UseSse(last.sessionId, sse_sessions)
        /\ last.status = 202 =>
              /\ last.sessionId \in sse_sessions
              /\ \E i \in 1..Len(queue[last.sessionId]) :
                    queue[last.sessionId][i] =
                        [response |-> C34_Reply(last), req |-> last.req]
        /\ last.status = 404 => last.sessionId \notin sse_sessions
C34_Witness ==
    /\ IsPost(last) /\ last.status = 202
    /\ last.called = <<"listTools", "raise">>
    /\ last.body.message["id"] = "8"

\* C36: get_connection constructs a connection only when none is cached: at
\* most one connection is constructed between two resets of the cache, a
\* successful call returns the cached object whatever decode_responses is,
\* a failed construction caches nothing and raises, and with an empty cache
\* the call builds a new connection from the configuration of that moment
C36_AuthOf(cfg) ==
    IF Truthy(cfg.entraid_auth_method) THEN cfg.entraid_auth_method
    ELSE "password"
C36_SingleConnection ==
    [][ (nposts' = nposts + 1 /\ last'.verb = "get_connection") =>
          /\ backend'.constructed <= 1
          /\ backend.instance # NoInstance =>
                /\ last'.outcome = Returns(backend.instance)
                /\ backend' = backend
          /\ last'.outcome.kind = "return" =>
                /\ backend'.instance # NoInstance
                /\ last'.outcome.value = backend'.instance
          /\ last'.outcome.kind = "raise" =>
                /\ backend.instance = NoInstance
                /\ backend'.instance = NoInstance
          /\ (backend.instance = NoInstance /\ last'.outcome.kind = "return") =>
                /\ last'.outcome.value.id > backend.built
                /\ last'.outcome.value.auth.kind = C36_AuthOf(backend.REDIS_CFG)
      ]_vars
C36_Witness ==
    /\ last.verb = "get_connection" /\ last.outcome.kind = "return"
    /\ last.cached # NoInstance
    /\ last.outcome.value.decode_responses # last.decode_responses
    /\ backend.built = 2

\* C37: the credential provider is chosen by entraid_auth_method alone:
\* service_principal, managed_identity (user-assigned when a managed-identity
\* client id is set, system-assigned otherwise) or default_azure_credential,
\* and one factory at most is called; service_principal without a tenant id,
\* a client id or a certificate path raises a ValueError naming the first of
\* them that is missing, in that order, having called no factory; any other
\* method value raises a ValueError; get_connection authenticates with the
\* password only when no method is configured
C37_Unset(value) == value \in {None, ""}
C37_FirstMissing(cfg) ==
    IF C37_Unset(cfg.entraid_tenant_id) THEN "REDIS_ENTRAID_TENANT_ID is required"
    ELSE IF C37_Unset(cfg.entraid_client_id) THEN "REDIS_ENTRAID_CLIENT_ID is required"
    ELSE IF C37_Unset(cfg.entraid_cert_path) THEN "REDIS_ENTRAID_CERT_PATH is required"
    ELSE None
C37_Selected(cfg, provider) ==
    LET method == cfg.entraid_auth_method
        made == provider.created
    IN
    /\ Len(made) <= 1
    /\ Len(made) = 1 => made[1].kind = method
    /\ provider.outcome.kind = "return" => provider.outcome.value = made[1]
    /\ method = "service_principal" =>
          IF C37_FirstMissing(cfg) # None
          THEN /\ provider.outcome = Raises(ValueError(C37_FirstMissing(cfg)))
               /\ made = <<>>
          ELSE made # <<>> \/ provider.outcome.kind = "raise"
    /\ method = "managed_identity" =>
          /\ Len(made) = 1
          /\ made[1].identity_type =
                IF ~C37_Unset(cfg.entraid_managed_identity_client_id)
                THEN "USER_ASSIGNED" ELSE "SYSTEM_ASSIGNED"
    /\ method = "default_azure_credential" => Len(made) = 1
    /\ method \notin {"service_principal", "managed_identity",
                      "default_azure_credential"} =>
          /\ provider.outcome.kind = "raise"
          /\ provider.outcome.error.cls = "ValueError"
          /\ made = <<>>
C37_ProviderByMethod ==
    /\ last.verb = "create_provider" => C37_Selected(last.cfg, last.provider)
    /\ (last.verb = "get_connection" /\ last.cached = NoInstance) =>
          /\ last.provider # NotCalled => C37_Selected(last.cfg, last.provider)
          /\ last.provider = NotCalled <=> C37_Unset(last.cfg.entraid_auth_method)
          /\ last.outcome.kind = "return" =>
                (last.outcome.value.auth.kind = "password"
                    <=> C37_Unset(last.cfg.entraid_auth_method))
C37_Witness ==
    /\ last.verb = "get_connection" /\ last.cached = NoInstance
    /\ last.cfg.entraid_auth_method = "service_principal"
    /\ last.cfg.entraid_tenant_id = "tenant"
    /\ last.cfg.entraid_client_id = None
    /\ last.cfg.entraid_cert_path = None
    /\ last.outcome = Raises(ValueError("REDIS_ENTRAID_CLIENT_ID is required"))

\* C35: a RedisError raised by a Redis command inside one of the list,
\* string and stream tools is not raised to the dispatcher: the tool returns
\* its error string, and the client gets a tools/call success reply carrying
\* it, not a -32000 error reply
C35_ErrorStrings ==
    {"Error pushing value to list", "Error popping value from list",
     "Error retrieving values from list", "Error retrieving length of list",
     "Error setting key", "Error retrieving key", "Error adding to stream",
     "Error reading from stream", "Error deleting from stream"}
C35_CommandFailed(issued) ==
    \E i \in 1..Len(issued) : issued[i].result = "RedisError"
C39_Writes == {"lpush", "rpush", "xadd"}
C39_Ordered(frame) ==
    \A i \in 1..Len(frame.issued) :
        /\ frame.issued[i].cmd = "expire" =>
              /\ frame.expire > 0
              /\ i = 2
              /\ frame.issued[1] = [cmd |-> frame.tool, result |-> "ok"]
        /\ frame.issued[i].result = "RedisError" => i = Len(frame.issued)
C39_ExpireAfterWrite ==
    [][ /\ \A n \in DOMAIN backend'.running :
              backend'.running[n].tool \in C39_Writes =>
                 /\ C39_Ordered(backend'.running[n])
                 /\ ( /\ n \in DOMAIN backend.running
                      /\ backend'.running[n].issued # backend.running[n].issued
                      /\ backend'.running[n].issued[Len(backend'.running[n].issued)]
                            = [cmd |-> "expire", result |-> "RedisError"] )
                    => /\ backend'.redis = backend.redis
                       /\ backend'.redis.exists
                       /\ backend'.running[n].outcome.kind = "return"
                       /\ backend'.running[n].outcome.value \in
                             {"Error pushing value to list", "Error adding to stream"}
        /\ (last'.verb = "call_tool" /\ last'.tool \in C39_Writes) =>
              C39_Ordered(last')
      ]_vars
C39_Witness ==
    /\ last.verb = "call_tool" /\ last.tool = "xadd" /\ last.expire = 60
    /\ last.issued = <<[cmd |-> "xadd", result |-> "ok"],
                       [cmd |-> "expire", result |-> "RedisError"]>>
    /\ last.outcome = Returns("Error adding to stream")
    /\ backend.redis = [exists |-> TRUE, ttl |-> NoExpiry]
    /\ backend.built = 1

\* C38: every semantic_cache_store(..., ttl=t) that stores its entry gives
\* it a time-to-live of t seconds (none for t = 0), whatever ttl earlier
\* calls on the same cache name and distance threshold used, and the TTL in
\* the confirmation is the one applied
C38_Requested(ttl) == IF ttl > 0 THEN ttl ELSE NoExpiry
C38_TtlPerCall ==
    (last.verb = "semantic_cache_store" /\ last.stored) =>
        /\ last.applied = C38_Requested(last.ttl)
        /\ last.outcome.value.ttl = last.applied

====
